---- MODULE Spec2Model ----
(***************************************************************************)
(* A model of the watermelon NATS client: the user-side handles            *)
(* (Client, Subscription, MultiplexedSubscription, request), the bounded   *)
(* command channel between them and the handler, and the handler reactor   *)
(* (Handler::poll, handle_server_op, receive_command, failed_unsubscribe,  *)
(* recycle and connect) together with the client task that drives it.      *)
(***************************************************************************)
EXTENDS Integers, Sequences, FiniteSets, TLC

\* ------------------------------------------------------------------ bounds
\* capacity of the command channel in the model (CLIENT_OP_CHANNEL_SIZE = 512 in the code)
ChanCap == 2
\* capacity of one subscription's message channel in the model (SUBSCRIPTION_CHANNEL_SIZE = 256)
SubCap == 1
\* number of subscribe calls (plain subscribes and the one made by an explicit-reply request)
MaxSubs == 2
\* number of multiplexed requests
MaxReq == 2
\* number of plain publishes
MaxPub == 1
\* number of server operations read over the life of the client
MaxServerOps == 1
\* number of times the connection is lost
MaxReconnects == 1
\* number of times the ping timer fires
MaxPings == 3
\* number of close_after calls
MaxCloseAfter == 1
\* number of messages and errors sent to the reply channel of a ResponseFut
MaxEvents == 2
\* number of tasks that call subscribe on clones of one Client
MaxCallers == 2
\* width of a subscription id in the model, in bits (64 in the code)
IdBits == 3
\* size in bytes of an encoded operation without a payload worth mentioning
SmallOpBytes == 64
\* size in bytes of an encoded Publish that carries a large payload
PayloadBytes == 4145152

\* ------------------------------------------------------- program constants
\* the most server operations a handshake reads after it sent Connect and Ping
MaxHandshakeOps == 3
\* the most addresses a name resolves to
MaxAddrs == 4
\* the most addresses of a resolver stream that may be pending between two of them
MaxLazyAddrs == 2
\* the bytes of one short read of a socket, the short reads of one connection, and the
\* calls of decode on one StreamDecoder that return an operation or an error
MaxRead == 2
MaxReads == 3
MaxDecodeCalls == 4
\* the bytes of one short write to a socket, and the operations enqueued on one
\* StreamEncoder
MaxWrite == 2
MaxWriteOps == 2
\* the width of usize in the model: lengths and counts are far below 2 ^ UsizeBits, as
\* they are far below 2 ^ 64 in the program
UsizeBits == 24

MULTIPLEXED_SUBSCRIPTION_ID == 1
RECV_BUF == 16
FirstUserId == MULTIPLEXED_SUBSCRIPTION_ID + 1
\* SubscriptionId::MAX, at the width of the model
SubscriptionIdMAX == 2 ^ IdBits - 1
\* PING_INTERVAL, in seconds
PING_INTERVAL == 10
\* the number of buffered bytes from which may_enqueue_more_ops is false
ENCODER_LIMIT == 8290304

\* ------------------------------------------------------------ value spaces
None == <<>>
Some(x) == <<x>>
IsSome(o) == Len(o) = 1
Unwrap(o) == o[1]

SubIds == FirstUserId..(FirstUserId + MaxSubs - 1)
ReplySubjects == 1..MaxReq
\* the (filter subject, queue group) pair the subscribe call that gets id i is made with
FilterOf(i) == IF i % 2 = 0 THEN <<"sa", None>> ELSE <<"sb", Some("q")>>
\* the reply subject of the explicit-reply request
ExplicitReply == MaxReq + 1

\* HandlerCommand
CmdPublish(reply) == [type |-> "Publish", id |-> 0, max |-> None, subject |-> "", queue_group |-> None, reply |-> reply]
CmdRequestMultiplexed(r) == [type |-> "RequestMultiplexed", id |-> 0, max |-> None, subject |-> "", queue_group |-> None, reply |-> Some(r)]
CmdUnsubscribeMultiplexed(r) == [type |-> "UnsubscribeMultiplexed", id |-> 0, max |-> None, subject |-> "", queue_group |-> None, reply |-> Some(r)]
CmdSubscribe(i, s, q) == [type |-> "Subscribe", id |-> i, max |-> None, subject |-> s, queue_group |-> q, reply |-> None]
CmdUnsubscribe(i, m) == [type |-> "Unsubscribe", id |-> i, max |-> m, subject |-> "", queue_group |-> None, reply |-> None]
CmdClose == [type |-> "Close", id |-> 0, max |-> None, subject |-> "", queue_group |-> None, reply |-> None]

\* ClientOp, as enqueued on the connection
OpPublish(reply) == [op |-> "Publish", id |-> 0, max |-> None, subject |-> "", queue_group |-> None, reply |-> reply]
OpSubscribe(i, s, q) == [op |-> "Subscribe", id |-> i, max |-> None, subject |-> s, queue_group |-> q, reply |-> None]
OpUnsubscribe(i, m) == [op |-> "Unsubscribe", id |-> i, max |-> m, subject |-> "", queue_group |-> None, reply |-> None]
OpPing == [op |-> "Ping", id |-> 0, max |-> None, subject |-> "", queue_group |-> None, reply |-> None]
OpPong == [op |-> "Pong", id |-> 0, max |-> None, subject |-> "", queue_group |-> None, reply |-> None]

\* InFlightCommand
Unimportant == [kind |-> "Unimportant", id |-> 0]
InFlightSubscribe(i) == [kind |-> "Subscribe", id |-> i]

\* ServerOp; fatal is is_fatal(): Some(TRUE), Some(FALSE) or None
SrvMessage(sid, subject) == [type |-> "Message", sid |-> sid, subject |-> subject, fatal |-> None]
SrvSuccess == [type |-> "Success", sid |-> 0, subject |-> 0, fatal |-> None]
SrvError(f) == [type |-> "Error", sid |-> 0, subject |-> 0, fatal |-> f]
SrvPing == [type |-> "Ping", sid |-> 0, subject |-> 0, fatal |-> None]
SrvPong == [type |-> "Pong", sid |-> 0, subject |-> 0, fatal |-> None]
SrvInfo(lame) == [type |-> "Info", sid |-> 0, subject |-> 0, fatal |-> Some(lame)]

\* ---------------------------------------------------------------- helpers
EmptyMap == [x \in {} |-> 0]
MapInsert(m, k, v) == [x \in DOMAIN m \cup {k} |-> IF x = k THEN v ELSE m[x]]
MapRemove(m, k) == [x \in DOMAIN m \ {k} |-> m[x]]
Min(a, b) == IF a < b THEN a ELSE b
SetMin(S) == CHOOSE x \in S : \A y \in S : x <= y

VARIABLES
    \* user side
    cmdq,                   \* the command channel (ClientInner::sender / Handler::commands)
    chanClosed,             \* the command receiver was closed or dropped
    next_subscription_id,   \* ClientInner::next_subscription_id
    usub,                   \* per id: the user's Subscription (status, life)
    subchan,                \* per id: the subscription's message channel
    mfut,                   \* per reply subject: the MultiplexedSubscription future
    mdeliv,                 \* per reply subject: messages sent on its one-shot
    quick_info,             \* RawQuickInfo
    rq,                     \* the explicit-reply request() call in progress
    close_called,           \* Client::close was called
    npub,
    ncloseafter,
    \* handler side
    hstate,                 \* running | recycled | connecting | closed
    pc,                     \* position inside Handler::poll
    output,                 \* the value the Handler future completed with
    shutting_down,
    pending_pings,
    in_flight_commands,
    subscriptions,
    multiplexed_subscriptions,
    awaiting_close,
    wire,                   \* the client operations in the write buffer of the connection
    flow,                   \* the ControlFlow the last call of handle_server_op returned
    qi_prev,                \* the QuickInfo read by RawQuickInfo::store in connect
    nserver,
    nreconnect,
    nping,
    sock,                   \* the operations the socket has taken on this connection
    ping_interval,          \* Handler::ping_interval: the seconds left until it elapses
    quiet,                  \* the seconds since a server operation was last handled on this connection
    handled_server_op,      \* the local handled_server_op of Handler::poll
    should_flush,           \* Connection::should_flush: StreamingConnection::may_flush or WebsocketConnection::should_flush
    flushing,               \* Handler::flushing
    delay,                  \* DelayedFlusher::delay: none | pending | elapsed
    unflushed,              \* a write on the socket succeeded since the last completed flush
    lim,                    \* what the environment does at most in this configuration
    happy_eyeballs,         \* happy_eyeballs::connect: the HappyEyeballs stream and the locals of its loop
    handshake,              \* the connect handshake on a new connection: its position and what it read and wrote
    decoder,                \* a StreamDecoder: its read buffer, its status, and what decode returned
    encoder,                \* a StreamEncoder: its chunks and its flattened writes, and the socket it is written to
    resp,                   \* a ResponseFut: its reply channel, its timeout, its output
    callers                 \* per task: its position inside a Client::subscribe call

vars == <<cmdq, chanClosed, next_subscription_id, usub, subchan, mfut, mdeliv, quick_info, rq,
          close_called, npub, ncloseafter,
          hstate, pc, output, shutting_down, pending_pings, in_flight_commands, subscriptions,
          multiplexed_subscriptions, awaiting_close, wire, flow, qi_prev, nserver, nreconnect, nping, sock, ping_interval, quiet, handled_server_op,
          should_flush, flushing, delay, unflushed, lim, happy_eyeballs, handshake, decoder, encoder, resp, callers>>

handlerVars == <<hstate, pc, output, shutting_down, pending_pings, in_flight_commands, subscriptions,
                 multiplexed_subscriptions, awaiting_close, wire, flow, qi_prev, nserver, nreconnect, nping, sock, ping_interval, quiet, handled_server_op,
                 should_flush, flushing, delay, unflushed>>

QuickInfoNew == [is_connected |-> FALSE, is_lameduck |-> FALSE, is_failed_unsubscribe |-> FALSE]

Callers == 1..MaxCallers
ResponseKinds == {"Multiplexed", "Subscription"}
\* a ResponseFut as try_request / request build it
ResponseFutNew(kind) == [kind |-> kind, chan |-> <<>>, closed |-> FALSE, elapsed |-> FALSE, out |-> "Pending"]

InitCore(l) ==
    /\ lim = l
    /\ callers = [t \in Callers |-> [pc |-> "idle", id |-> 0]]
    /\ cmdq = <<>>
    /\ chanClosed = FALSE
    /\ next_subscription_id = FirstUserId
    /\ usub = [i \in SubIds |-> [status |-> "Subscribed", life |-> "none"]]
    /\ subchan = [i \in SubIds |-> [chan |-> <<>>, receiver_queue |-> <<>>]]
    /\ mfut = [r \in ReplySubjects |-> "none"]
    /\ mdeliv = [r \in ReplySubjects |-> 0]
    /\ quick_info = [QuickInfoNew EXCEPT !.is_connected = TRUE]
    /\ rq = [pc |-> "idle", id |-> 0]
    /\ close_called = FALSE
    /\ npub = 0
    /\ ncloseafter = 0
    /\ hstate = "running"
    /\ pc = "idle"
    /\ output = "none"
    /\ shutting_down = FALSE
    /\ pending_pings = 0
    /\ in_flight_commands = <<>>
    /\ subscriptions = EmptyMap
    /\ multiplexed_subscriptions = None
    /\ awaiting_close = 0
    /\ wire = <<>>
    /\ flow = "Continue"
    /\ qi_prev = QuickInfoNew
    /\ nserver = 0
    /\ nreconnect = 0
    /\ nping = 0
    /\ sock = <<>>
    /\ ping_interval = PING_INTERVAL
    /\ quiet = 0
    /\ handled_server_op = FALSE
    /\ should_flush = l.ws
    /\ flushing = FALSE
    /\ delay = "none"
    /\ unflushed = FALSE

\* a resolved address: its family and its place in the answer of the resolver
Addr(f, n) == [family |-> f, n |-> n]

\* HappyEyeballs::new over the records dns, with the locals of happy_eyeballs::connect;
\* lazy tells a resolver stream that may return Pending from one that never does
HappyEyeballs_new(dns, lazy) ==
    [addrs |-> dns, dns |-> Some(dns), lazy |-> lazy, dns_received |-> <<>>, connecting |-> {},
     last_attempted |-> None, next_attempt_delay |-> "none", expired |-> FALSE,
     last_err |-> None, out |-> [kind |-> "Running", addr |-> None], attempts |-> <<>>]

\* the variables of the client and of its handler
clientVars == <<cmdq, chanClosed, next_subscription_id, usub, subchan, mfut, mdeliv, quick_info, rq,
                close_called, npub, ncloseafter,
                hstate, pc, output, shutting_down, pending_pings, in_flight_commands, subscriptions,
                multiplexed_subscriptions, awaiting_close, wire, flow, qi_prev, nserver, nreconnect,
                nping, sock, ping_interval, quiet, handled_server_op,
                should_flush, flushing, delay, unflushed, lim, resp, callers>>

\* the machines that a configuration of the client does not run
NoDial == happy_eyeballs = HappyEyeballs_new(<<>>, FALSE)
NoHandshake == handshake = [pc |-> "idle"]
NoDecoder == decoder = [status |-> "idle"]
NoEncoder == encoder = [status |-> "idle"]

InitWith(l) == InitCore(l) /\ resp = ResponseFutNew("Subscription") /\ NoDial /\ NoHandshake /\ NoDecoder /\ NoEncoder

\* ------------------------------------------------------------- user side
\* mpsc::Sender::try_send / reserve succeed: the channel is open and has a free slot;
\* a Permit held by a subscribe call in progress takes a slot
PermitHeld(t) == callers[t].pc \in {"reserved", "fetched"}
CanSend == ~chanClosed /\ Len(cmdq) + Cardinality({t \in Callers : PermitHeld(t)}) < lim.chan

\* some Sender of subscription id's message channel is alive: it travels in the
\* Subscribe command and then lives in the handler's subscription map
SenderAlive(id) ==
    \/ \E k \in 1..Len(cmdq) : cmdq[k].type = "Subscribe" /\ cmdq[k].id = id
    \/ hstate # "closed" /\ id \in DOMAIN subscriptions

\* the one-shot Sender of reply subject r is alive
MuxSenderAlive(r) ==
    \/ \E k \in 1..Len(cmdq) : cmdq[k].type = "RequestMultiplexed" /\ cmdq[k].reply = Some(r)
    \/ hstate = "running" /\ IsSome(multiplexed_subscriptions) /\ r \in Unwrap(multiplexed_subscriptions)

\* the user holds the Subscription of id (it is not inside a request() call in progress)
UserOwns(id) == rq.id # id \/ rq.pc = "done"

\* Client::subscribe / do_subscribe
Subscribe ==
    /\ next_subscription_id < FirstUserId + lim.subs
    /\ CanSend
    /\ cmdq' = Append(cmdq, CmdSubscribe(next_subscription_id, FilterOf(next_subscription_id)[1],
                                         FilterOf(next_subscription_id)[2]))
    /\ usub' = [usub EXCEPT ![next_subscription_id].life = "alive"]
    /\ next_subscription_id' = next_subscription_id + 1
    /\ UNCHANGED <<chanClosed, subchan, mfut, mdeliv, quick_info, rq, close_called, npub, ncloseafter, lim, happy_eyeballs, handshake, decoder, encoder, resp, callers>>
    /\ UNCHANGED handlerVars

\* Subscription::close
SubscriptionClose(id) ==
    /\ usub[id].life = "alive" /\ UserOwns(id)
    /\ usub[id].status = "Subscribed"
    /\ IF ~SenderAlive(id)
       THEN /\ usub' = [usub EXCEPT ![id].status = "Unsubscribed"]
            /\ UNCHANGED cmdq
       ELSE /\ CanSend
            /\ cmdq' = Append(cmdq, CmdUnsubscribe(id, None))
            /\ usub' = [usub EXCEPT ![id].status = "Unsubscribed"]
    /\ UNCHANGED <<chanClosed, next_subscription_id, subchan, mfut, mdeliv, quick_info, rq, close_called, npub, ncloseafter, lim, happy_eyeballs, handshake, decoder, encoder, resp, callers>>
    /\ UNCHANGED handlerVars

\* Subscription::close_after
SubscriptionCloseAfter(id, max) ==
    /\ usub[id].life = "alive" /\ UserOwns(id)
    /\ usub[id].status = "Subscribed"
    /\ ncloseafter < lim.closeafter
    /\ ncloseafter' = ncloseafter + 1
    /\ IF ~SenderAlive(id)
       THEN /\ usub' = [usub EXCEPT ![id].status = "Unsubscribed"]
            /\ UNCHANGED cmdq
       ELSE /\ CanSend
            /\ cmdq' = Append(cmdq, CmdUnsubscribe(id, Some(max)))
            /\ UNCHANGED usub
    /\ UNCHANGED <<chanClosed, next_subscription_id, subchan, mfut, mdeliv, quick_info, rq, close_called, npub, lim, happy_eyeballs, handshake, decoder, encoder, resp, callers>>
    /\ UNCHANGED handlerVars

Reverse(s) == [k \in 1..Len(s) |-> s[Len(s) + 1 - k]]
BATCH_RECEIVE_SIZE == 16

\* the value Stream::poll_next returns from the buffers c when it is Ready
poll_next_item(c) ==
    IF c.receiver_queue # <<>> THEN Some(c.receiver_queue[Len(c.receiver_queue)])
    ELSE IF c.chan # <<>>
    THEN LET n == Min(Len(c.chan), BATCH_RECEIVE_SIZE)
             batch == Reverse(SubSeq(c.chan, 1, n))
         IN Some(batch[n])
    ELSE None

\* a poll_next that would not reverse the batch it received
PollNextNoReverse(id) ==
    /\ usub[id].life = "alive" /\ UserOwns(id)
    /\ LET c == subchan[id] IN
       IF c.receiver_queue # <<>>
       THEN /\ subchan' = [subchan EXCEPT ![id].receiver_queue = SubSeq(c.receiver_queue, 1, Len(c.receiver_queue) - 1)]
            /\ UNCHANGED usub
       ELSE IF c.chan # <<>>
       THEN LET n == Min(Len(c.chan), BATCH_RECEIVE_SIZE)
                batch == SubSeq(c.chan, 1, n)
            IN /\ subchan' = [subchan EXCEPT ![id] = [chan |-> SubSeq(c.chan, n + 1, Len(c.chan)),
                                                     receiver_queue |-> SubSeq(batch, 1, n - 1)]]
               /\ UNCHANGED usub
       ELSE /\ ~SenderAlive(id)
            /\ usub[id].status = "Subscribed"
            /\ usub' = [usub EXCEPT ![id].status = "Unsubscribed"]
            /\ UNCHANGED subchan
    /\ UNCHANGED <<cmdq, chanClosed, next_subscription_id, mfut, mdeliv, quick_info, rq, close_called, npub, ncloseafter, lim, happy_eyeballs, handshake, decoder, encoder, resp, callers>>
    /\ UNCHANGED handlerVars

\* Stream::poll_next of Subscription
PollNext(id) ==
    /\ usub[id].life = "alive" /\ UserOwns(id)
    /\ LET c == subchan[id] IN
       IF c.receiver_queue # <<>>
       THEN \* pop() takes the last element of receiver_queue
            /\ subchan' = [subchan EXCEPT ![id].receiver_queue = SubSeq(c.receiver_queue, 1, Len(c.receiver_queue) - 1)]
            /\ UNCHANGED usub
       ELSE IF c.chan # <<>>
       THEN LET n == Min(Len(c.chan), BATCH_RECEIVE_SIZE)
                batch == Reverse(SubSeq(c.chan, 1, n))
            IN /\ subchan' = [subchan EXCEPT ![id] = [chan |-> SubSeq(c.chan, n + 1, Len(c.chan)),
                                                     receiver_queue |-> SubSeq(batch, 1, n - 1)]]
               /\ UNCHANGED usub
       ELSE /\ ~SenderAlive(id)
            /\ usub[id].status = "Subscribed"
            /\ usub' = [usub EXCEPT ![id].status = "Unsubscribed"]
            /\ UNCHANGED subchan
    /\ UNCHANGED <<cmdq, chanClosed, next_subscription_id, mfut, mdeliv, quick_info, rq, close_called, npub, ncloseafter, lim, happy_eyeballs, handshake, decoder, encoder, resp, callers>>
    /\ UNCHANGED handlerVars

\* Client::lazy_unsubscribe, as a change of (cmdq, quick_info)
lazy_unsubscribe(id, max) ==
    IF CanSend
    THEN /\ cmdq' = Append(cmdq, CmdUnsubscribe(id, max))
         /\ UNCHANGED quick_info
    ELSE /\ quick_info' = [quick_info EXCEPT !.is_failed_unsubscribe = TRUE]
         /\ UNCHANGED cmdq

\* a drop that would not look at the status of the Subscription
SubscriptionDropIgnoringStatus(id) ==
    /\ usub[id].life = "alive"
    /\ UserOwns(id) \/ (rq.id = id /\ rq.pc = "lazy_done")
    /\ IF ~SenderAlive(id)
       THEN UNCHANGED <<cmdq, quick_info>>
       ELSE lazy_unsubscribe(id, None)
    /\ usub' = [usub EXCEPT ![id].life = "dropping"]
    /\ rq' = IF rq.id = id /\ rq.pc = "lazy_done" THEN [rq EXCEPT !.pc = "cancelled"] ELSE rq
    /\ UNCHANGED <<chanClosed, next_subscription_id, subchan, mfut, mdeliv, close_called, npub, ncloseafter, lim, happy_eyeballs, handshake, decoder, encoder, resp, callers>>
    /\ UNCHANGED handlerVars

\* Drop::drop of Subscription: the body runs while the receiver is still alive
SubscriptionDrop(id) ==
    /\ usub[id].life = "alive"
    /\ UserOwns(id) \/ (rq.id = id /\ rq.pc = "lazy_done")
    /\ IF usub[id].status = "Unsubscribed" \/ ~SenderAlive(id)
       THEN UNCHANGED <<cmdq, quick_info>>
       ELSE lazy_unsubscribe(id, None)
    /\ usub' = [usub EXCEPT ![id].life = "dropping"]
    /\ rq' = IF rq.id = id /\ rq.pc = "lazy_done" THEN [rq EXCEPT !.pc = "cancelled"] ELSE rq
    /\ UNCHANGED <<chanClosed, next_subscription_id, subchan, mfut, mdeliv, close_called, npub, ncloseafter, lim, happy_eyeballs, handshake, decoder, encoder, resp, callers>>
    /\ UNCHANGED handlerVars

\* the fields of a dropped Subscription are dropped after Drop::drop returned:
\* only now is the receiver gone and the channel closed for the handler's Sender
SubscriptionDropFields(id) ==
    /\ usub[id].life = "dropping"
    /\ usub' = [usub EXCEPT ![id].life = "dropped"]
    /\ subchan' = [subchan EXCEPT ![id] = [chan |-> <<>>, receiver_queue |-> <<>>]]
    /\ UNCHANGED <<cmdq, chanClosed, next_subscription_id, mfut, mdeliv, quick_info, rq, close_called, npub, ncloseafter, lim, happy_eyeballs, handshake, decoder, encoder, resp, callers>>
    /\ UNCHANGED handlerVars

\* Client::multiplexed_request / do_multiplexed_request: the reply subject is fresh
MultiplexedRequest ==
    /\ \E r \in 1..lim.req : mfut[r] = "none"
    /\ CanSend
    /\ LET r == SetMin({x \in 1..lim.req : mfut[x] = "none"}) IN
       /\ cmdq' = Append(cmdq, CmdRequestMultiplexed(r))
       /\ mfut' = [mfut EXCEPT ![r] = "alive"]
    /\ UNCHANGED <<chanClosed, next_subscription_id, usub, subchan, mdeliv, quick_info, rq, close_called, npub, ncloseafter, lim, happy_eyeballs, handshake, decoder, encoder, resp, callers>>
    /\ UNCHANGED handlerVars

\* Future::poll of MultiplexedSubscription, when the one-shot is ready
MultiplexedPoll(r) ==
    /\ mfut[r] = "alive"
    /\ \/ /\ mdeliv[r] > 0
          /\ mfut' = [mfut EXCEPT ![r] = "resolved_ok"]
       \/ /\ mdeliv[r] = 0 /\ ~MuxSenderAlive(r)
          /\ mfut' = [mfut EXCEPT ![r] = "resolved_closed"]
    /\ UNCHANGED <<cmdq, chanClosed, next_subscription_id, usub, subchan, mdeliv, quick_info, rq, close_called, npub, ncloseafter, lim, happy_eyeballs, handshake, decoder, encoder, resp, callers>>
    /\ UNCHANGED handlerVars

\* Client::lazy_unsubscribe_multiplexed, as a change of (cmdq, quick_info)
lazy_unsubscribe_multiplexed(r) ==
    IF CanSend
    THEN /\ cmdq' = Append(cmdq, CmdUnsubscribeMultiplexed(r))
         /\ UNCHANGED quick_info
    ELSE /\ quick_info' = [quick_info EXCEPT !.is_failed_unsubscribe = TRUE]
         /\ UNCHANGED cmdq

\* Drop::drop of MultiplexedSubscription before it completed
MultiplexedDrop(r) ==
    /\ mfut[r] = "alive"
    /\ lazy_unsubscribe_multiplexed(r)
    /\ mfut' = [mfut EXCEPT ![r] = "dropping"]
    /\ UNCHANGED <<chanClosed, next_subscription_id, usub, subchan, mdeliv, rq, close_called, npub, ncloseafter, lim, happy_eyeballs, handshake, decoder, encoder, resp, callers>>
    /\ UNCHANGED handlerVars

\* the one-shot receiver taken out of the MultiplexedSubscription is dropped when
\* Drop::drop returns
MultiplexedDropFields(r) ==
    /\ mfut[r] = "dropping"
    /\ mfut' = [mfut EXCEPT ![r] = "dropped"]
    /\ UNCHANGED <<cmdq, chanClosed, next_subscription_id, usub, subchan, mdeliv, quick_info, rq, close_called, npub, ncloseafter, lim, happy_eyeballs, handshake, decoder, encoder, resp, callers>>
    /\ UNCHANGED handlerVars

\* publish
Publish ==
    /\ npub < lim.pub
    /\ CanSend
    /\ cmdq' = Append(cmdq, CmdPublish(None))
    /\ npub' = npub + 1
    /\ UNCHANGED <<chanClosed, next_subscription_id, usub, subchan, mfut, mdeliv, quick_info, rq, close_called, ncloseafter, lim, happy_eyeballs, handshake, decoder, encoder, resp, callers>>
    /\ UNCHANGED handlerVars

\* the number of the next command of the handle, counting its publishes and subscribes
EnqueueSeq == npub + (next_subscription_id - FirstUserId) + 1

\* publish of a message whose reply subject is the number of the command
PublishWithReply ==
    /\ npub < lim.pub
    /\ CanSend
    /\ cmdq' = Append(cmdq, CmdPublish(Some(EnqueueSeq)))
    /\ npub' = npub + 1
    /\ UNCHANGED <<chanClosed, next_subscription_id, usub, subchan, mfut, mdeliv, quick_info, rq, close_called, ncloseafter, lim, happy_eyeballs, handshake, decoder, encoder, resp, callers>>
    /\ UNCHANGED handlerVars

\* Client::subscribe / do_subscribe with the number of the command as filter subject
SubscribeSubject ==
    /\ next_subscription_id < FirstUserId + lim.subs
    /\ CanSend
    /\ cmdq' = Append(cmdq, CmdSubscribe(next_subscription_id, EnqueueSeq, None))
    /\ usub' = [usub EXCEPT ![next_subscription_id].life = "alive"]
    /\ next_subscription_id' = next_subscription_id + 1
    /\ UNCHANGED <<chanClosed, subchan, mfut, mdeliv, quick_info, rq, close_called, npub, ncloseafter, lim, happy_eyeballs, handshake, decoder, encoder, resp, callers>>
    /\ UNCHANGED handlerVars

\* request() with an explicit reply subject: client.subscribe(reply_subject, None).await
RequestSubscribe ==
    /\ rq.pc = "idle" /\ lim.rq
    /\ next_subscription_id < FirstUserId + lim.subs
    /\ CanSend
    /\ cmdq' = Append(cmdq, CmdSubscribe(next_subscription_id, ExplicitReply, None))
    /\ usub' = [usub EXCEPT ![next_subscription_id].life = "alive"]
    /\ rq' = [pc |-> "subscribed", id |-> next_subscription_id]
    /\ next_subscription_id' = next_subscription_id + 1
    /\ UNCHANGED <<chanClosed, subchan, mfut, mdeliv, quick_info, close_called, npub, ncloseafter, lim, happy_eyeballs, handshake, decoder, encoder, resp, callers>>
    /\ UNCHANGED handlerVars

\* request(): client.lazy_unsubscribe(subscription.id, Some(1))
RequestLazyUnsubscribe ==
    /\ rq.pc = "subscribed"
    /\ lazy_unsubscribe(rq.id, Some(1))
    /\ rq' = [rq EXCEPT !.pc = "lazy_done"]
    /\ UNCHANGED <<chanClosed, next_subscription_id, usub, subchan, mfut, mdeliv, close_called, npub, ncloseafter, lim, happy_eyeballs, handshake, decoder, encoder, resp, callers>>
    /\ UNCHANGED handlerVars

\* request(): request.publish.client(client).await, then the ResponseFut is returned;
\* on a closed client the call returns the error and its Subscription is dropped
RequestPublish ==
    /\ rq.pc = "lazy_done"
    /\ IF chanClosed
       THEN /\ rq' = [rq EXCEPT !.pc = "failed"]
            /\ IF usub[rq.id].status = "Unsubscribed" \/ ~SenderAlive(rq.id)
               THEN UNCHANGED <<cmdq, quick_info>>
               ELSE lazy_unsubscribe(rq.id, None)
            /\ usub' = [usub EXCEPT ![rq.id].life = "dropping"]
       ELSE /\ CanSend
            /\ cmdq' = Append(cmdq, CmdPublish(Some(ExplicitReply)))
            /\ rq' = [rq EXCEPT !.pc = "done"]
            /\ UNCHANGED <<usub, quick_info>>
    /\ UNCHANGED <<chanClosed, next_subscription_id, subchan, mfut, mdeliv, close_called, npub, ncloseafter, lim, happy_eyeballs, handshake, decoder, encoder, resp, callers>>
    /\ UNCHANGED handlerVars

\* Client::close: enqueue_command(Close(sender)).await
ClientClose ==
    /\ ~close_called /\ lim.close
    /\ CanSend
    /\ cmdq' = Append(cmdq, CmdClose)
    /\ close_called' = TRUE
    /\ UNCHANGED <<chanClosed, next_subscription_id, usub, subchan, mfut, mdeliv, quick_info, rq, npub, ncloseafter, lim, happy_eyeballs, handshake, decoder, encoder, resp, callers>>
    /\ UNCHANGED handlerVars

\* what Client::enqueue_command returns in this state; "Pending" while the send waits
enqueue_command_result ==
    IF chanClosed THEN "ClientClosedError" ELSE IF CanSend THEN "Ok" ELSE "Pending"

\* what Client::try_enqueue_command returns in this state
try_enqueue_command_result ==
    IF chanClosed THEN "Closed" ELSE IF CanSend THEN "Ok" ELSE "BufferFull"

\* what Client::subscribe returns in this state: reserve().await.map_err(|_| ClientClosedError)
subscribe_result ==
    IF chanClosed THEN "ClientClosedError" ELSE IF CanSend THEN "Ok" ELSE "Pending"

\* what Client::try_subscribe returns in this state: try_reserve().map_err(|_| BufferFull)
try_subscribe_result == IF CanSend THEN "Ok" ELSE "BufferFull"

\* what Subscription::close returns in this state
subscription_close_result(id) ==
    IF usub[id].status = "Subscribed" /\ SenderAlive(id) THEN enqueue_command_result ELSE "Ok"

\* the process called abort()
Aborted == \E t \in Callers : callers[t].pc = "aborted"

\* Client::subscribe on a clone of the Client: self.inner.sender.reserve().await
SubscribeReserve(t) ==
    /\ ~Aborted
    /\ callers[t].pc = "idle"
    /\ CanSend
    /\ callers' = [callers EXCEPT ![t].pc = "reserved"]
    /\ UNCHANGED <<cmdq, chanClosed, next_subscription_id, usub, subchan, mfut, mdeliv, quick_info, rq,
                   close_called, npub, ncloseafter, lim, happy_eyeballs, handshake, decoder, encoder, resp>>
    /\ UNCHANGED handlerVars

\* do_subscribe: self.inner.next_subscription_id.fetch_add(1, Ordering::AcqRel)
SubscribeFetchAdd(t) ==
    /\ ~Aborted
    /\ callers[t].pc = "reserved"
    /\ callers' = [callers EXCEPT ![t] = [pc |-> "fetched", id |-> next_subscription_id]]
    /\ next_subscription_id' = (next_subscription_id + 1) % (2 ^ IdBits)
    /\ UNCHANGED <<cmdq, chanClosed, usub, subchan, mfut, mdeliv, quick_info, rq,
                   close_called, npub, ncloseafter, lim, happy_eyeballs, handshake, decoder, encoder, resp>>
    /\ UNCHANGED handlerVars

\* do_subscribe: if id == SubscriptionId::MAX { abort(); }, then permit.send(Subscribe)
SubscribeSend(t) ==
    /\ ~Aborted
    /\ callers[t].pc = "fetched"
    /\ IF callers[t].id = SubscriptionIdMAX
       THEN /\ callers' = [callers EXCEPT ![t].pc = "aborted"]
            /\ UNCHANGED cmdq
       ELSE /\ callers' = [callers EXCEPT ![t] = [pc |-> "idle", id |-> 0]]
            /\ cmdq' = Append(cmdq, CmdSubscribe(callers[t].id, FilterOf(callers[t].id)[1],
                                                 FilterOf(callers[t].id)[2]))
    /\ UNCHANGED <<chanClosed, next_subscription_id, usub, subchan, mfut, mdeliv, quick_info, rq,
                   close_called, npub, ncloseafter, lim, happy_eyeballs, handshake, decoder, encoder, resp>>
    /\ UNCHANGED handlerVars

\* a subscribe whose future would draw its id before it waits for the permit
SubscribeWaitAfterFetch(t) ==
    /\ callers[t].pc = "idle"
    /\ next_subscription_id < FirstUserId + lim.subs
    /\ ~chanClosed /\ ~CanSend
    /\ callers' = [callers EXCEPT ![t] = [pc |-> "waiting", id |-> next_subscription_id]]
    /\ next_subscription_id' = next_subscription_id + 1
    /\ UNCHANGED <<cmdq, chanClosed, usub, subchan, mfut, mdeliv, quick_info, rq,
                   close_called, npub, ncloseafter, lim, happy_eyeballs, handshake, decoder, encoder, resp>>
    /\ UNCHANGED handlerVars

\* Client::subscribe polled on a full channel: self.inner.sender.reserve() is
\* Pending and the future waits for capacity
SubscribeWait(t) ==
    /\ callers[t].pc = "idle"
    /\ next_subscription_id < FirstUserId + lim.subs
    /\ ~chanClosed /\ ~CanSend
    /\ callers' = [callers EXCEPT ![t].pc = "waiting"]
    /\ UNCHANGED <<cmdq, chanClosed, next_subscription_id, usub, subchan, mfut, mdeliv, quick_info, rq,
                   close_called, npub, ncloseafter, lim, happy_eyeballs, handshake, decoder, encoder, resp>>
    /\ UNCHANGED handlerVars

\* the waiting subscribe future is dropped: the Reserve future leaves the wait queue
\* of the channel
SubscribeCancel(t) ==
    /\ callers[t].pc = "waiting"
    /\ callers' = [callers EXCEPT ![t].pc = "cancelled"]
    /\ UNCHANGED <<cmdq, chanClosed, next_subscription_id, usub, subchan, mfut, mdeliv, quick_info, rq,
                   close_called, npub, ncloseafter, lim, happy_eyeballs, handshake, decoder, encoder, resp>>
    /\ UNCHANGED handlerVars

\* the waiting subscribe future is polled when the channel has capacity: reserve()
\* yields the permit and do_subscribe runs
SubscribeResume(t) ==
    /\ callers[t].pc = "waiting"
    /\ next_subscription_id < FirstUserId + lim.subs
    /\ CanSend
    /\ cmdq' = Append(cmdq, CmdSubscribe(next_subscription_id, FilterOf(next_subscription_id)[1],
                                         FilterOf(next_subscription_id)[2]))
    /\ usub' = [usub EXCEPT ![next_subscription_id].life = "alive"]
    /\ next_subscription_id' = next_subscription_id + 1
    /\ callers' = [callers EXCEPT ![t] = [pc |-> "idle", id |-> 0]]
    /\ UNCHANGED <<chanClosed, subchan, mfut, mdeliv, quick_info, rq, close_called, npub, ncloseafter, lim, happy_eyeballs, handshake, decoder, encoder, resp>>
    /\ UNCHANGED handlerVars

\* what the reply channel of a ResponseFut can carry: a reply, a reply with status
\* 503, and (on a Subscription only) a server error
ResponseEvents == {"message", "no_responders", "server_error"}

\* the handler sends on the reply channel: a one-shot takes one message and is
\* consumed by it
ResponseSend(e) ==
    /\ ~resp.closed
    /\ Len(resp.chan) < MaxEvents
    /\ resp.kind = "Multiplexed" => e # "server_error"
    /\ resp' = [resp EXCEPT !.chan = Append(@, e), !.closed = (resp.kind = "Multiplexed")]
    /\ UNCHANGED <<cmdq, chanClosed, next_subscription_id, usub, subchan, mfut, mdeliv, quick_info, rq,
                   close_called, npub, ncloseafter, lim, happy_eyeballs, handshake, decoder, encoder, callers>>
    /\ UNCHANGED handlerVars

\* the handler drops the sender of the reply channel
ResponseSenderDropped ==
    /\ ~resp.closed
    /\ resp' = [resp EXCEPT !.closed = TRUE]
    /\ UNCHANGED <<cmdq, chanClosed, next_subscription_id, usub, subchan, mfut, mdeliv, quick_info, rq,
                   close_called, npub, ncloseafter, lim, happy_eyeballs, handshake, decoder, encoder, callers>>
    /\ UNCHANGED handlerVars

\* the Sleep of the pending ResponseFut elapses
ResponseTimeoutElapses ==
    /\ resp.out = "Pending"
    /\ ~resp.elapsed
    /\ resp' = [resp EXCEPT !.elapsed = TRUE]
    /\ UNCHANGED <<cmdq, chanClosed, next_subscription_id, usub, subchan, mfut, mdeliv, quick_info, rq,
                   close_called, npub, ncloseafter, lim, happy_eyeballs, handshake, decoder, encoder, callers>>
    /\ UNCHANGED handlerVars

\* Pin::new(receiver).poll / Pin::new(subscription).poll_next on the reply channel
poll_subscription(r) ==
    IF r.chan # <<>> THEN Head(r.chan)
    ELSE IF r.closed THEN "closed"
    ELSE "pending"

\* a poll that would look at the timeout ahead of the reply channel
poll_timeout_first(r) ==
    IF r.elapsed THEN "TimedOut"
    ELSE CASE poll_subscription(r) = "pending" -> "Pending"
           [] poll_subscription(r) = "no_responders" -> "NoResponders"
           [] poll_subscription(r) = "message" -> "Ok"
           [] poll_subscription(r) = "server_error" -> "ServerError"
           [] poll_subscription(r) = "closed" -> "SubscriptionClosed"

\* Future::poll of ResponseFut, as the output of the poll
ResponseFut_poll(r) ==
    CASE poll_subscription(r) = "pending" -> IF r.elapsed THEN "TimedOut" ELSE "Pending"
      [] poll_subscription(r) = "no_responders" -> "NoResponders"
      [] poll_subscription(r) = "message" -> "Ok"
      [] poll_subscription(r) = "server_error" -> "ServerError"
      [] poll_subscription(r) = "closed" -> "SubscriptionClosed"

\* the task that owns the ResponseFut polls it until it is ready
ResponsePoll ==
    /\ resp.out = "Pending"
    /\ resp' = [resp EXCEPT !.out = ResponseFut_poll(resp),
                            !.chan = IF @ = <<>> THEN @ ELSE Tail(@)]
    /\ UNCHANGED <<cmdq, chanClosed, next_subscription_id, usub, subchan, mfut, mdeliv, quick_info, rq,
                   close_called, npub, ncloseafter, lim, happy_eyeballs, handshake, decoder, encoder, callers>>
    /\ UNCHANGED handlerVars

\* ---------------------------------------------------------- handler side
RECURSIVE SortedIds(_)
\* the elements of a set of ids in ascending order (BTreeMap iteration order)
SortedIds(S) == IF S = {} THEN <<>> ELSE <<SetMin(S)>> \o SortedIds(S \ {SetMin(S)})

\* the handler fields that handle_server_op, receive_command and failed_unsubscribe
\* change, with the channels they send on, as one record
HandlerView ==
    [subscriptions |-> subscriptions,
     multiplexed_subscriptions |-> multiplexed_subscriptions,
     in_flight_commands |-> in_flight_commands,
     wire |-> wire,
     shutting_down |-> shutting_down,
     awaiting_close |-> awaiting_close,
     chanClosed |-> chanClosed,
     pending_pings |-> pending_pings,
     quick_info |-> quick_info,
     subchan |-> subchan,
     mdeliv |-> mdeliv,
     commands |-> cmdq,
     flow |-> "Continue"]

\* mpsc::Sender::try_send on the message channel of subscription id
try_send_outcome(h, id) ==
    IF usub[id].life = "dropped" THEN "Closed"
    ELSE IF Len(h.subchan[id].chan) >= lim.subcap THEN "Full"
    ELSE "Ok"

SubscriptionEntry(s, q) == [subject |-> s, queue_group |-> q, remaining |-> None, failed_subscribe |-> FALSE]

\* an initialisation that would create the map without subscribing to the prefix
init_without_subscribe(h) ==
    [h EXCEPT !.in_flight_commands = Append(@, InFlightSubscribe(MULTIPLEXED_SUBSCRIPTION_ID)),
              !.multiplexed_subscriptions = Some({})]

\* init_multiplexed_subscriptions
init_multiplexed_subscriptions(h) ==
    [h EXCEPT !.in_flight_commands = Append(@, InFlightSubscribe(MULTIPLEXED_SUBSCRIPTION_ID)),
              !.wire = Append(@, OpSubscribe(MULTIPLEXED_SUBSCRIPTION_ID, "prefix.*", None)),
              !.multiplexed_subscriptions = Some({})]

\* one arm of the match in receive_command
HandleCommand(h, cmd) ==
    CASE cmd.type = "Publish" ->
            [h EXCEPT !.in_flight_commands = Append(@, Unimportant),
                      !.wire = Append(@, OpPublish(cmd.reply))]
      [] cmd.type = "RequestMultiplexed" ->
            LET h1 == IF IsSome(h.multiplexed_subscriptions) THEN h ELSE init_multiplexed_subscriptions(h)
            IN [h1 EXCEPT !.in_flight_commands = Append(@, Unimportant),
                          !.multiplexed_subscriptions = Some(Unwrap(@) \cup {Unwrap(cmd.reply)}),
                          !.wire = Append(@, OpPublish(cmd.reply))]
      [] cmd.type = "UnsubscribeMultiplexed" ->
            IF IsSome(h.multiplexed_subscriptions)
            THEN [h EXCEPT !.multiplexed_subscriptions = Some(Unwrap(@) \ {Unwrap(cmd.reply)})]
            ELSE h
      [] cmd.type = "Subscribe" ->
            [h EXCEPT !.subscriptions = MapInsert(@, cmd.id, SubscriptionEntry(cmd.subject, cmd.queue_group)),
                      !.in_flight_commands = Append(@, InFlightSubscribe(cmd.id)),
                      !.wire = Append(@, OpSubscribe(cmd.id, cmd.subject, cmd.queue_group))]
      [] cmd.type = "Unsubscribe" /\ IsSome(cmd.max) ->
            IF cmd.id \in DOMAIN h.subscriptions
            THEN [h EXCEPT !.subscriptions[cmd.id].remaining = cmd.max,
                           !.in_flight_commands = Append(@, Unimportant),
                           !.wire = Append(@, OpUnsubscribe(cmd.id, cmd.max))]
            ELSE h
      [] cmd.type = "Unsubscribe" /\ ~IsSome(cmd.max) ->
            IF cmd.id \in DOMAIN h.subscriptions
            THEN [h EXCEPT !.subscriptions = MapRemove(@, cmd.id),
                           !.in_flight_commands = Append(@, Unimportant),
                           !.wire = Append(@, OpUnsubscribe(cmd.id, None))]
            ELSE h
      [] cmd.type = "Close" ->
            [h EXCEPT !.shutting_down = TRUE,
                      !.awaiting_close = @ + 1,
                      !.chanClosed = TRUE]

RECURSIVE HandleBatchNewestFirst(_, _)
\* a loop over the batch that would handle the newest command first
HandleBatchNewestFirst(h, cmds) ==
    IF cmds = <<>> THEN h
    ELSE HandleBatchNewestFirst(HandleCommand(h, cmds[Len(cmds)]), SubSeq(cmds, 1, Len(cmds) - 1))

RECURSIVE HandleBatch(_, _)
\* for cmd in self.recv_buf.drain(..)
HandleBatch(h, cmds) ==
    IF cmds = <<>> THEN h ELSE HandleBatch(HandleCommand(h, Head(cmds)), Tail(cmds))

\* a multiplexed arm that would deliver the message and keep the map entry
DeliverAndKeepEntry(h, op) ==
    IF ~IsSome(h.multiplexed_subscriptions) THEN h
    ELSE IF op.subject \in Unwrap(h.multiplexed_subscriptions)
    THEN [h EXCEPT !.mdeliv[op.subject] = @ + 1]
    ELSE h

\* the multiplexed arm of handle_server_op
HandleMultiplexedMessage(h, op) ==
    IF ~IsSome(h.multiplexed_subscriptions) THEN h
    ELSE IF op.subject \in Unwrap(h.multiplexed_subscriptions)
    THEN [h EXCEPT !.multiplexed_subscriptions = Some(Unwrap(@) \ {op.subject}),
                   !.mdeliv[op.subject] = @ + 1]
    ELSE h

\* Ok(message): the item sent for a server message, known by its subject
ItemOk(op) == [ok |-> TRUE, subject |-> op.subject]
\* Err(error): the item sent for a failed subscribe
ItemErr == [ok |-> FALSE, subject |-> 0]

\* a count-down that would remove the subscription one message early
CountDownOneEarly(h, id) ==
    LET remaining == h.subscriptions[id].remaining IN
    IF ~IsSome(remaining) THEN h
    ELSE IF Unwrap(remaining) - 1 <= 1
    THEN [h EXCEPT !.subscriptions = MapRemove(@, id)]
    ELSE [h EXCEPT !.subscriptions[id].remaining = Some(Unwrap(remaining) - 1)]

\* if let Some(remaining) = &mut subscription.remaining { ... }
CountDown(h, id) ==
    LET remaining == h.subscriptions[id].remaining IN
    IF ~IsSome(remaining) THEN h
    ELSE IF Unwrap(remaining) - 1 = 0
    THEN [h EXCEPT !.subscriptions = MapRemove(@, id)]
    ELSE [h EXCEPT !.subscriptions[id].remaining = Some(Unwrap(remaining) - 1)]

\* a delivery that would not count a message dropped on a full channel
HandleMessageFullUncounted(h, op) ==
    IF op.sid \notin DOMAIN h.subscriptions THEN h
    ELSE CASE try_send_outcome(h, op.sid) = "Ok" ->
                CountDown([h EXCEPT !.subchan[op.sid].chan = Append(@, ItemOk(op))], op.sid)
           [] try_send_outcome(h, op.sid) = "Full" -> h
           [] try_send_outcome(h, op.sid) = "Closed" ->
                [h EXCEPT !.in_flight_commands = Append(@, Unimportant),
                          !.wire = Append(@, OpUnsubscribe(op.sid, None))]

\* the arm of handle_server_op for a message of a user subscription
HandleMessage(h, op) ==
    IF op.sid \notin DOMAIN h.subscriptions THEN h
    ELSE CASE try_send_outcome(h, op.sid) = "Ok" ->
                CountDown([h EXCEPT !.subchan[op.sid].chan = Append(@, ItemOk(op))], op.sid)
           [] try_send_outcome(h, op.sid) = "Full" ->
                CountDown(h, op.sid)
           [] try_send_outcome(h, op.sid) = "Closed" ->
                [h EXCEPT !.in_flight_commands = Append(@, Unimportant),
                          !.wire = Append(@, OpUnsubscribe(op.sid, None))]

\* a non-fatal -ERR arm that would drop the subscription when its channel is full
HandleNonFatalErrorDroppingFull(h) ==
    IF h.in_flight_commands = <<>> THEN [h EXCEPT !.flow = "UnexpectedState"]
    ELSE LET cmd == Head(h.in_flight_commands)
             h1 == [h EXCEPT !.in_flight_commands = Tail(@)]
         IN IF cmd.kind = "Subscribe" /\ cmd.id \in DOMAIN h1.subscriptions
            THEN CASE try_send_outcome(h1, cmd.id) = "Ok" ->
                        [h1 EXCEPT !.subscriptions = MapRemove(@, cmd.id),
                                   !.subchan[cmd.id].chan = Append(@, ItemErr)]
                   [] try_send_outcome(h1, cmd.id) = "Closed" ->
                        [h1 EXCEPT !.subscriptions = MapRemove(@, cmd.id)]
                   [] try_send_outcome(h1, cmd.id) = "Full" ->
                        [h1 EXCEPT !.subscriptions = MapRemove(@, cmd.id)]
            ELSE h1

\* the arm of handle_server_op for a non-fatal -ERR
HandleNonFatalError(h) ==
    IF h.in_flight_commands = <<>> THEN [h EXCEPT !.flow = "UnexpectedState"]
    ELSE LET cmd == Head(h.in_flight_commands)
             h1 == [h EXCEPT !.in_flight_commands = Tail(@)]
         IN IF cmd.kind = "Subscribe" /\ cmd.id \in DOMAIN h1.subscriptions
            THEN CASE try_send_outcome(h1, cmd.id) = "Ok" ->
                        [h1 EXCEPT !.subscriptions = MapRemove(@, cmd.id),
                                   !.subchan[cmd.id].chan = Append(@, ItemErr)]
                   [] try_send_outcome(h1, cmd.id) = "Closed" ->
                        [h1 EXCEPT !.subscriptions = MapRemove(@, cmd.id)]
                   [] try_send_outcome(h1, cmd.id) = "Full" ->
                        [h1 EXCEPT !.subscriptions[cmd.id].failed_subscribe = TRUE,
                                   !.quick_info.is_failed_unsubscribe = TRUE]
            ELSE h1

\* Handler::handle_server_op; flow is the ControlFlow it returns
handle_server_op(h, op) ==
    CASE op.type = "Message" /\ op.sid = MULTIPLEXED_SUBSCRIPTION_ID -> HandleMultiplexedMessage(h, op)
      [] op.type = "Message" /\ op.sid # MULTIPLEXED_SUBSCRIPTION_ID -> HandleMessage(h, op)
      [] op.type = "Success" ->
            IF h.in_flight_commands = <<>> THEN [h EXCEPT !.flow = "UnexpectedState"]
            ELSE [h EXCEPT !.in_flight_commands = Tail(@)]
      [] op.type = "Error" /\ op.fatal = Some(FALSE) -> HandleNonFatalError(h)
      [] op.type = "Error" /\ op.fatal # Some(FALSE) -> [h EXCEPT !.flow = "ServerError"]
      [] op.type = "Ping" -> [h EXCEPT !.wire = Append(@, OpPong)]
      [] op.type = "Pong" -> [h EXCEPT !.pending_pings = IF @ = 0 THEN 0 ELSE @ - 1]
      [] op.type = "Info" -> [h EXCEPT !.quick_info.is_lameduck = Unwrap(op.fatal)]

RECURSIVE UnsubscribeClosed(_, _)
\* for closed_subscription_id in closed_subscription_ids
UnsubscribeClosed(h, ids) ==
    IF ids = <<>> THEN h
    ELSE UnsubscribeClosed(
            [h EXCEPT !.in_flight_commands = Append(@, Unimportant),
                      !.wire = Append(@, OpUnsubscribe(Head(ids), None)),
                      !.subscriptions = MapRemove(@, Head(ids))],
            Tail(ids))

\* Handler::failed_unsubscribe
failed_unsubscribe(h) ==
    LET h1 == [h EXCEPT !.quick_info.is_failed_unsubscribe = FALSE]
        h2 == IF IsSome(h1.multiplexed_subscriptions)
              THEN [h1 EXCEPT !.multiplexed_subscriptions =
                        Some({r \in Unwrap(@) : mfut[r] # "dropped"})]
              ELSE h1
        closed_subscription_ids ==
            {id \in DOMAIN h2.subscriptions :
                usub[id].life = "dropped" \/ h2.subscriptions[id].failed_subscribe}
    IN UnsubscribeClosed(h2, SortedIds(closed_subscription_ids))

\* a reset that would arm the timer one second short of the interval
reset_one_second_short == PING_INTERVAL - 1

\* Handler::reset_ping_interval: the value of ping_interval after the call
reset_ping_interval == PING_INTERVAL

\* a ping that would tolerate a third unanswered Ping
ping_tolerating_three(h) ==
    IF h.pending_pings < 3
    THEN [h EXCEPT !.wire = Append(@, OpPing), !.pending_pings = @ + 1]
    ELSE [h EXCEPT !.flow = "Disconnected"]

\* Handler::ping, as the fields it changes; Err(Disconnected) is flow "Disconnected"
ping(h) ==
    IF h.pending_pings < 2
    THEN [h EXCEPT !.wire = Append(@, OpPing), !.pending_pings = @ + 1]
    ELSE [h EXCEPT !.flow = "Disconnected"]

\* the assignment of a HandlerView back to the variables it was read from
Commit(h) ==
    /\ subscriptions' = h.subscriptions
    /\ multiplexed_subscriptions' = h.multiplexed_subscriptions
    /\ in_flight_commands' = h.in_flight_commands
    /\ wire' = h.wire
    /\ shutting_down' = h.shutting_down
    /\ awaiting_close' = h.awaiting_close
    /\ chanClosed' = h.chanClosed
    /\ pending_pings' = h.pending_pings
    /\ quick_info' = h.quick_info
    /\ subchan' = h.subchan
    /\ mdeliv' = h.mdeliv

\* the Handler future is being polled by the handler task of a live process
Polling == ~Aborted /\ hstate = "running" /\ output = "none"

userOnly == <<next_subscription_id, usub, mfut, rq, close_called, npub, ncloseafter, lim, happy_eyeballs, handshake, decoder, encoder, resp, callers>>

\* the fields of the connection and of the handler that steer the flushing
flushVars == <<should_flush, flushing, delay, unflushed>>

\* WebsocketConnection::enqueue_write_op sets should_flush; StreamingConnection::enqueue_write_op
\* leaves may_flush alone: the flag once the write buffer went from wire to w
enqueue_write_op(w) == should_flush \/ (lim.ws /\ Len(w) > Len(wire))

\* Handler::poll up to the read loop: the ping timer and the failed-unsubscribe sweep
PollBegin ==
    /\ Polling /\ pc = "idle"
    /\ LET fired == ping_interval = 0
           h1 == IF fired THEN ping(HandlerView) ELSE HandlerView
       IN /\ nping' = IF fired THEN nping + 1 ELSE nping
          /\ IF h1.flow = "Disconnected"
             THEN /\ output' = "Disconnected"
                  /\ UNCHANGED <<pc, subscriptions, multiplexed_subscriptions, in_flight_commands, wire,
                                 shutting_down, awaiting_close, chanClosed, pending_pings, quick_info,
                                 subchan, mdeliv, ping_interval>>
             ELSE /\ Commit(IF h1.quick_info.is_failed_unsubscribe THEN failed_unsubscribe(h1) ELSE h1)
                  /\ ping_interval' = IF fired THEN reset_ping_interval ELSE ping_interval
                  /\ pc' = "read"
                  /\ UNCHANGED output
    /\ UNCHANGED <<cmdq, hstate, flow, qi_prev, nserver, nreconnect, sock, quiet, handled_server_op>>
    /\ should_flush' = enqueue_write_op(wire')
    /\ UNCHANGED <<flushing, delay, unflushed>>
    /\ UNCHANGED userOnly

\* the read loop of Handler::poll, Poll::Ready(Ok(flow)): the ControlFlow that
\* handle_server_op returns is dropped
ReadReady(op) ==
    /\ Polling /\ pc = "read"
    /\ nserver < lim.srv
    /\ nserver' = nserver + 1
    /\ flow' = handle_server_op(HandlerView, op).flow
    /\ Commit(handle_server_op(HandlerView, op))
    /\ handled_server_op' = TRUE
    /\ quiet' = 0
    /\ UNCHANGED <<cmdq, hstate, pc, output, qi_prev, nreconnect, nping, sock, ping_interval>>
    /\ should_flush' = enqueue_write_op(wire')
    /\ UNCHANGED <<flushing, delay, unflushed>>

PollRead(op) == ReadReady(op) /\ UNCHANGED userOnly

\* the read loop of Handler::poll, Poll::Pending
ReadPending ==
    /\ Polling /\ pc = "read"
    /\ pc' = "recv"
    /\ flow' = "Continue"
    /\ ping_interval' = IF handled_server_op THEN reset_ping_interval ELSE ping_interval
    /\ handled_server_op' = FALSE
    /\ UNCHANGED <<cmdq, chanClosed, subchan, mdeliv, quick_info>>
    /\ UNCHANGED <<hstate, output, shutting_down, pending_pings, in_flight_commands, subscriptions,
                   multiplexed_subscriptions, awaiting_close, wire, qi_prev, nserver, nreconnect, nping,
                   sock, quiet>>
    /\ UNCHANGED flushVars

PollReadPending == ReadPending /\ UNCHANGED userOnly

\* the read loop of Handler::poll, Poll::Ready(Err(_))
ReadFailed ==
    /\ Polling /\ pc = "read"
    /\ output' = "Disconnected"
    /\ pc' = "idle"
    /\ flow' = "Continue"
    /\ handled_server_op' = FALSE
    /\ UNCHANGED <<cmdq, chanClosed, subchan, mdeliv, quick_info>>
    /\ UNCHANGED <<hstate, shutting_down, pending_pings, in_flight_commands, subscriptions,
                   multiplexed_subscriptions, awaiting_close, wire, qi_prev, nserver, nreconnect, nping,
                   sock, ping_interval, quiet>>
    /\ UNCHANGED flushVars

\* the errors of the connection that a configuration lets happen
PollReadError == nreconnect < lim.reconnect /\ ReadFailed /\ UNCHANGED userOnly

RECURSIVE remaining(_)
\* StreamEncoder::remaining: the bytes of the operations w in the write buffer; a
\* Publish has the size of its payload, every other operation is small
remaining(w) ==
    IF w = <<>> THEN 0
    ELSE (IF Head(w).op = "Publish" THEN lim.opsize ELSE SmallOpBytes) + remaining(Tail(w))

\* StreamingConnection::may_enqueue_more_ops on a write buffer that holds the operations w
may_enqueue_more_ops(w) == remaining(w) < ENCODER_LIMIT

\* Connection::may_enqueue_more_ops: the streaming connection looks at its encoder; the
\* websocket connection asks the sink whether it is ready
Connection_may_enqueue_more_ops(w) == IF lim.ws THEN lim.writable ELSE may_enqueue_more_ops(w)

\* what receive_command returns when it takes no command (more) on a write buffer w
ReceiveOutcome(w) == IF Connection_may_enqueue_more_ops(w) THEN "NoMoreCommands" ELSE "NoMoreSpace"

\* Connection::flushes_automatically_when_full
flushes_automatically_when_full == ~lim.ws

\* the flush action one iteration of the write loop of Handler::poll chooses
FlushAction(receive_outcome, sf) ==
    IF sf /\ (receive_outcome = "NoMoreCommands" \/ ~flushes_automatically_when_full)
    THEN "Start" ELSE "Stop"

\* FlushAction::Start arms the delayed flusher when one is configured and it is not armed
StartDelay(action, d) == IF action = "Start" /\ lim.delay /\ d = "none" THEN "pending" ELSE d

\* what poll_flush returns at the end of a poll
FlushOutcomes == IF lim.flushblocks THEN {"Pending", "Ready"} ELSE {"Ready"}

\* receive_command, Poll::Ready(1..): a batch of at most RECV_BUF commands is
\* taken from the channel and every command of it is handled
ReceiveCommands ==
    /\ Polling /\ pc = "recv"
    /\ Connection_may_enqueue_more_ops(wire)
    /\ cmdq # <<>>
    /\ LET n == Min(Len(cmdq), RECV_BUF) IN
        /\ cmdq' = SubSeq(cmdq, n + 1, Len(cmdq))
        /\ Commit(HandleBatch(HandlerView, SubSeq(cmdq, 1, n)))
    /\ UNCHANGED <<hstate, pc, output, flow, qi_prev, nserver, nreconnect, nping, sock, ping_interval, quiet, handled_server_op>>
    /\ should_flush' = enqueue_write_op(wire')
    /\ UNCHANGED <<flushing, delay, unflushed>>
    /\ UNCHANGED userOnly

\* receive_command, Poll::Ready(0): the channel is closed and empty; the loop goes on
ReceiveClosed ==
    /\ Polling /\ pc = "recv"
    /\ Connection_may_enqueue_more_ops(wire)
    /\ cmdq = <<>> /\ chanClosed /\ \A t \in Callers : ~PermitHeld(t)
    /\ shutting_down' = TRUE
    /\ UNCHANGED <<cmdq, chanClosed, subchan, mdeliv, quick_info>>
    /\ UNCHANGED <<hstate, pc, output, pending_pings, in_flight_commands, subscriptions,
                   multiplexed_subscriptions, awaiting_close, wire, flow, qi_prev, nserver,
                   nreconnect, nping, sock, ping_interval, quiet, handled_server_op>>
    /\ UNCHANGED flushVars
    /\ UNCHANGED userOnly

\* poll_recv_many in receive_command returns Pending: the channel holds no command.
\* On an open channel this is taken to hold at any time, as the commands a state
\* shows may have arrived after the call; a closed and empty channel reports
\* Ready(0) instead, until the task's budget makes the call return Pending
NoMoreCommands ==
    /\ cmdq = <<>> \/ ~chanClosed
    /\ (cmdq = <<>> /\ chanClosed) => shutting_down

\* what the socket does at the poll_write_next calls of one poll: TRUE when it is
\* blocked (Poll::Pending)
SocketBlocked == IF lim.partial THEN BOOLEAN ELSE {~lim.writable}

\* the operations the socket has taken, kept where a configuration looks at them
Taken(ops) == IF lim.trace THEN sock \o ops ELSE sock

\* the write loop of Handler::poll makes progress: poll_write_next is Ready(n), n
\* operations leave the write buffer and the loop goes on with receive_command
PollWrite ==
    /\ Polling /\ pc = "recv"
    /\ lim.partial /\ ~lim.ws
    /\ \E n \in 1..Len(wire) :
        /\ wire' = SubSeq(wire, n + 1, Len(wire))
        /\ sock' = Taken(SubSeq(wire, 1, n))
    /\ should_flush' = TRUE
    /\ unflushed' = TRUE
    /\ flushing' = (FlushAction(ReceiveOutcome(wire), TRUE) = "Start")
    /\ delay' = StartDelay(FlushAction(ReceiveOutcome(wire), TRUE), delay)
    /\ UNCHANGED <<cmdq, chanClosed, subchan, mdeliv, quick_info>>
    /\ UNCHANGED <<hstate, pc, output, shutting_down, pending_pings, in_flight_commands, subscriptions,
                   multiplexed_subscriptions, awaiting_close, flow, qi_prev, nserver,
                   nreconnect, nping, ping_interval, quiet, handled_server_op>>
    /\ UNCHANGED userOnly

\* the rest of Handler::poll, from the last iteration of the write loop on:
\* receive_command returned NoMoreCommands or NoMoreSpace and either the socket is
\* blocked with operations left in the write buffer, or every operation was written
\* and receive_command found no command again; a websocket connection registers
\* the write waker at once. The last iteration chooses the flush action, and a poll
\* that is flushing calls poll_flush once unless the delayed flusher is still
\* waiting; the future then completes with Closed when shutting_down is set
PollEnd ==
    /\ Polling /\ pc = "recv"
    /\ \E blocked \in SocketBlocked, flushed \in FlushOutcomes :
        LET pending == ~lim.ws /\ blocked /\ wire # <<>>
            writes == ~lim.ws /\ ~pending /\ wire # <<>>
            w1 == IF writes THEN <<>> ELSE wire
            sf == IF pending THEN FALSE ELSE IF writes THEN TRUE ELSE should_flush
            action == FlushAction(ReceiveOutcome(w1), sf)
            d1 == StartDelay(action, delay)
            can_flush == action = "Start" /\ d1 # "pending"
            done == can_flush /\ flushed = "Ready"
        IN  /\ ReceiveOutcome(w1) = "NoMoreCommands" => NoMoreCommands
            /\ flushing' = (action = "Start" /\ ~done)
            /\ delay' = IF action = "Start" /\ d1 = "elapsed" THEN "none" ELSE d1
            /\ should_flush' = IF done /\ ~lim.ws THEN FALSE ELSE sf
            /\ unflushed' = IF done THEN FALSE ELSE (unflushed \/ writes)
            /\ wire' = IF done /\ lim.ws THEN <<>> ELSE w1
            /\ sock' = IF writes \/ (done /\ lim.ws) THEN Taken(wire) ELSE sock
    /\ pc' = "idle"
    /\ output' = IF shutting_down THEN "Closed" ELSE "none"
    /\ UNCHANGED <<cmdq, chanClosed, subchan, mdeliv, quick_info>>
    /\ UNCHANGED <<hstate, shutting_down, pending_pings, in_flight_commands, subscriptions,
                   multiplexed_subscriptions, awaiting_close, flow, qi_prev, nserver,
                   nreconnect, nping, ping_interval, quiet, handled_server_op>>
    /\ UNCHANGED userOnly

\* poll_write_next or poll_flush returned an error
PollWriteError ==
    /\ Polling /\ pc = "recv"
    /\ nreconnect < lim.reconnect
    /\ output' = "Disconnected"
    /\ pc' = "idle"
    /\ UNCHANGED <<cmdq, chanClosed, subchan, mdeliv, quick_info>>
    /\ UNCHANGED <<hstate, shutting_down, pending_pings, in_flight_commands, subscriptions,
                   multiplexed_subscriptions, awaiting_close, wire, flow, qi_prev, nserver,
                   nreconnect, nping, sock, ping_interval, quiet, handled_server_op>>
    /\ UNCHANGED flushVars
    /\ UNCHANGED userOnly

\* a recycle that would not carry the subscription map over
recycle_without_subscriptions(h) ==
    [commands |-> h.commands,
     chanClosed |-> h.chanClosed,
     quick_info |-> [h.quick_info EXCEPT !.is_connected = FALSE],
     subscriptions |-> EmptyMap,
     awaiting_close |-> h.awaiting_close]

\* Handler::recycle: the fields of the Handler that move into the RecycledHandler
recycle(h) ==
    [commands |-> h.commands,
     chanClosed |-> h.chanClosed,
     quick_info |-> [h.quick_info EXCEPT !.is_connected = FALSE],
     subscriptions |-> h.subscriptions,
     awaiting_close |-> h.awaiting_close]

\* the handler task of Client::connect, on a completed Handler future:
\* ServerError | Disconnected => Handler::recycle; UnexpectedState => poll again;
\* Closed => the task ends and the handler is dropped
ClientTask ==
    /\ hstate = "running" /\ output # "none"
    /\ output' = "none"
    /\ pc' = "idle"
    /\ IF output \in {"ServerError", "Disconnected"}
       THEN /\ hstate' = "recycled"
            /\ cmdq' = recycle(HandlerView).commands
            /\ chanClosed' = recycle(HandlerView).chanClosed
            /\ quick_info' = recycle(HandlerView).quick_info
            /\ subscriptions' = recycle(HandlerView).subscriptions
            /\ awaiting_close' = recycle(HandlerView).awaiting_close
            /\ nreconnect' = nreconnect + 1
            /\ multiplexed_subscriptions' = None
            /\ in_flight_commands' = <<>>
            /\ wire' = <<>>
            /\ pending_pings' = 0
            /\ shutting_down' = FALSE
            /\ sock' = <<>>
       ELSE IF output = "Closed"
       THEN /\ hstate' = "closed"
            /\ cmdq' = <<>>
            /\ chanClosed' = TRUE
            /\ subscriptions' = EmptyMap
            /\ multiplexed_subscriptions' = None
            /\ awaiting_close' = 0
            /\ UNCHANGED <<quick_info, nreconnect, in_flight_commands, wire, pending_pings, shutting_down, sock>>
       ELSE UNCHANGED <<hstate, quick_info, nreconnect, multiplexed_subscriptions, in_flight_commands,
                        wire, pending_pings, shutting_down, cmdq, chanClosed, subscriptions,
                        awaiting_close, sock>>
    /\ UNCHANGED <<subchan, mdeliv, flow, qi_prev, nserver, nping, ping_interval, quiet, handled_server_op>>
    /\ IF output \in {"ServerError", "Disconnected"}
       THEN /\ should_flush' = FALSE
            /\ flushing' = FALSE
            /\ delay' = "none"
            /\ unflushed' = FALSE
       ELSE UNCHANGED flushVars
    /\ UNCHANGED userOnly

RECURSIVE ReplayUnsubscribeFirst(_, _, _)
\* a replay loop that would enqueue the Unsubscribe of an id ahead of its Subscribe
ReplayUnsubscribeFirst(subs, ids, acc) ==
    IF ids = <<>> THEN acc
    ELSE LET id == Head(ids)
             sub == OpSubscribe(id, subs[id].subject, subs[id].queue_group)
             ops == IF IsSome(subs[id].remaining)
                    THEN <<OpUnsubscribe(id, subs[id].remaining), sub>>
                    ELSE <<sub>>
         IN ReplayUnsubscribeFirst(subs, Tail(ids), <<Append(acc[1], InFlightSubscribe(id)), acc[2] \o ops>>)

RECURSIVE Replay(_, _, _)
\* the replay loop of Handler::connect over the recycled subscriptions, in key order:
\* acc is <<in_flight_commands, operations enqueued on the new connection>>
Replay(subs, ids, acc) ==
    IF ids = <<>> THEN acc
    ELSE LET id == Head(ids)
             sub == OpSubscribe(id, subs[id].subject, subs[id].queue_group)
             ops == IF IsSome(subs[id].remaining)
                    THEN <<sub, OpUnsubscribe(id, subs[id].remaining)>>
                    ELSE <<sub>>
         IN Replay(subs, Tail(ids), <<Append(acc[1], InFlightSubscribe(id)), acc[2] \o ops>>)

\* Handler::connect, easy_connect succeeded: RawQuickInfo::store reads the word
ConnectBegin ==
    /\ hstate = "recycled"
    /\ hstate' = "connecting"
    /\ qi_prev' = quick_info
    /\ UNCHANGED <<cmdq, chanClosed, subchan, mdeliv, quick_info>>
    /\ UNCHANGED <<pc, output, shutting_down, pending_pings, in_flight_commands, subscriptions,
                   multiplexed_subscriptions, awaiting_close, wire, flow, nserver, nreconnect, nping, sock, ping_interval, quiet, handled_server_op>>
    /\ UNCHANGED flushVars
    /\ UNCHANGED userOnly

\* Handler::connect, the rest: RawQuickInfo::store writes the word back, the
\* subscriptions are replayed and the new Handler is built from the recycled one
Reconnected ==
    /\ hstate = "connecting"
    /\ hstate' = "running"
    /\ quick_info' = [qi_prev EXCEPT !.is_connected = TRUE, !.is_lameduck = FALSE]
    /\ LET r == Replay(subscriptions, SortedIds(DOMAIN subscriptions), <<<<>>, <<>>>>) IN
        /\ in_flight_commands' = r[1]
        /\ wire' = r[2]
    /\ shutting_down' = FALSE
    /\ pending_pings' = 0
    /\ multiplexed_subscriptions' = None
    /\ pc' = "idle"
    /\ ping_interval' = PING_INTERVAL
    /\ quiet' = 0
    /\ UNCHANGED <<cmdq, chanClosed, subchan, mdeliv>>
    /\ UNCHANGED <<output, subscriptions, awaiting_close, flow, qi_prev, nserver, nreconnect, nping,
                   sock, handled_server_op>>
    /\ should_flush' = lim.ws
    /\ UNCHANGED <<flushing, delay, unflushed>>

ConnectFinish == Reconnected /\ UNCHANGED userOnly

\* a second passes on a running handler whose ping timer has not elapsed; an
\* elapsed timer wakes the handler task, which is polled before more time passes
Tick ==
    /\ lim.clock /\ nping < lim.ping
    /\ hstate = "running" /\ output = "none"
    /\ ping_interval > 0
    /\ ping_interval' = ping_interval - 1
    /\ quiet' = Min(quiet + 1, PING_INTERVAL)
    /\ UNCHANGED <<cmdq, chanClosed, subchan, mdeliv, quick_info>>
    /\ UNCHANGED <<hstate, pc, output, shutting_down, pending_pings, in_flight_commands, subscriptions,
                   multiplexed_subscriptions, awaiting_close, wire, flow, qi_prev, nserver,
                   nreconnect, nping, sock, handled_server_op>>
    /\ UNCHANGED flushVars
    /\ UNCHANGED userOnly

\* the sleep of the delayed flusher elapses
DelayElapses ==
    /\ hstate = "running" /\ output = "none"
    /\ delay = "pending"
    /\ delay' = "elapsed"
    /\ UNCHANGED <<cmdq, chanClosed, subchan, mdeliv, quick_info>>
    /\ UNCHANGED <<hstate, pc, output, shutting_down, pending_pings, in_flight_commands, subscriptions,
                   multiplexed_subscriptions, awaiting_close, wire, flow, qi_prev, nserver,
                   nreconnect, nping, sock, ping_interval, quiet, handled_server_op>>
    /\ UNCHANGED <<should_flush, flushing, unflushed>>
    /\ UNCHANGED userOnly

\* the server operations the connection can yield
ServerOps ==
    {SrvMessage(MULTIPLEXED_SUBSCRIPTION_ID, r) : r \in 1..lim.req}
        \cup {SrvMessage(i, 0) : i \in FirstUserId..(FirstUserId + lim.subs - 1)}
        \cup {SrvSuccess, SrvPing, SrvPong, SrvInfo(TRUE), SrvInfo(FALSE)}
        \cup {SrvError(f) : f \in {None, Some(TRUE), Some(FALSE)}}

\* the steps of the handler and of the client task
HandlerNext ==
    \/ PollBegin
    \/ \E op \in ServerOps : PollRead(op)
    \/ PollReadPending
    \/ PollReadError
    \/ ReceiveCommands
    \/ PollEnd
    \/ PollWriteError
    \/ ClientTask
    \/ ConnectBegin
    \/ ConnectFinish

\* user subscriptions over a connection that is lost and re-established
LimSub == [subs |-> MaxSubs, req |-> 0, pub |-> 0, srv |-> MaxServerOps, reconnect |-> MaxReconnects,
           ping |-> 0, closeafter |-> MaxCloseAfter, rq |-> FALSE, close |-> FALSE, writable |-> TRUE,
           chan |-> ChanCap, subcap |-> SubCap, opsize |-> SmallOpBytes, partial |-> FALSE,
           clock |-> FALSE, trace |-> FALSE,
           ws |-> FALSE, delay |-> FALSE, flushblocks |-> FALSE]

Init == InitWith(LimSub)

Next ==
    \/ Subscribe
    \/ \E id \in SubIds : SubscriptionClose(id)
    \/ \E id \in SubIds : SubscriptionCloseAfter(id, 2)
    \/ \E id \in SubIds : PollNext(id)
    \/ \E id \in SubIds : SubscriptionDrop(id)
    \/ \E id \in SubIds : SubscriptionDropFields(id)
    \/ HandlerNext

Spec == Init /\ [][Next]_vars

\* multiplexed requests, and one user subscription, over a connection that is lost
\* and re-established; the socket takes no bytes, so that wire holds every operation
\* enqueued on the current connection
LimMux == [subs |-> MaxSubs, req |-> MaxReq, pub |-> 0, srv |-> MaxServerOps, reconnect |-> MaxReconnects,
           ping |-> 0, closeafter |-> 0, rq |-> FALSE, close |-> FALSE, writable |-> FALSE,
           chan |-> ChanCap, subcap |-> SubCap, opsize |-> SmallOpBytes, partial |-> FALSE,
           clock |-> FALSE, trace |-> FALSE,
           ws |-> FALSE, delay |-> FALSE, flushblocks |-> FALSE]

InitMux == InitWith(LimMux)

NextMux ==
    \/ Subscribe
    \/ MultiplexedRequest
    \/ \E r \in ReplySubjects : MultiplexedPoll(r)
    \/ \E r \in ReplySubjects : MultiplexedDrop(r)
    \/ \E r \in ReplySubjects : MultiplexedDropFields(r)
    \/ HandlerNext

SpecMux == InitMux /\ [][NextMux]_vars

\* nothing but what a configuration names happens
LimNone == [subs |-> 0, req |-> 0, pub |-> 0, srv |-> 0, reconnect |-> 0,
            ping |-> 0, closeafter |-> 0, rq |-> FALSE, close |-> FALSE, writable |-> TRUE,
           chan |-> ChanCap, subcap |-> SubCap, opsize |-> SmallOpBytes, partial |-> FALSE,
           clock |-> FALSE, trace |-> FALSE,
           ws |-> FALSE, delay |-> FALSE, flushblocks |-> FALSE]

\* one ResponseFut of either kind, its reply channel and its timeout
InitResp ==
    /\ InitCore(LimNone) /\ resp \in {ResponseFutNew(kind) : kind \in ResponseKinds}
    /\ NoDial /\ NoHandshake /\ NoDecoder /\ NoEncoder

NextResp ==
    \/ \E e \in ResponseEvents : ResponseSend(e)
    \/ ResponseSenderDropped
    \/ ResponseTimeoutElapses
    \/ ResponsePoll

SpecResp == InitResp /\ [][NextResp]_vars

\* a request with an explicit reply subject next to plain publishes, on a handler
\* whose connection stays up; the socket takes no bytes, so that wire holds every
\* operation enqueued
LimReq == [subs |-> MaxSubs, req |-> 0, pub |-> MaxPub, srv |-> 0, reconnect |-> 0,
           ping |-> 0, closeafter |-> 0, rq |-> TRUE, close |-> FALSE, writable |-> FALSE,
           chan |-> ChanCap, subcap |-> SubCap, opsize |-> SmallOpBytes, partial |-> FALSE,
           clock |-> FALSE, trace |-> FALSE,
           ws |-> FALSE, delay |-> FALSE, flushblocks |-> FALSE]

InitReq == InitWith(LimReq)

NextReq ==
    \/ RequestSubscribe
    \/ RequestLazyUnsubscribe
    \/ RequestPublish
    \/ Publish
    \/ Subscribe
    \/ \E id \in SubIds : SubscriptionDrop(id)
    \/ \E id \in SubIds : SubscriptionDropFields(id)
    \/ PollBegin
    \/ PollReadPending
    \/ ReceiveCommands
    \/ PollEnd

SpecReq == InitReq /\ [][NextReq]_vars

\* tasks that call subscribe on clones of one Client, on a handler whose
\* connection stays up, until the process aborts
InitIds == InitWith(LimNone)

NextIds ==
    \/ \E t \in Callers : SubscribeReserve(t)
    \/ \E t \in Callers : SubscribeFetchAdd(t)
    \/ \E t \in Callers : SubscribeSend(t)
    \/ PollBegin
    \/ PollReadPending
    \/ ReceiveCommands
    \/ PollEnd

SpecIds == InitIds /\ [][NextIds]_vars

\* subscribe calls that wait for capacity on a full command channel and may be
\* dropped while they wait, next to subscriptions that are dropped
LimCancel == [subs |-> MaxSubs, req |-> 0, pub |-> 0, srv |-> 0, reconnect |-> 0,
              ping |-> 0, closeafter |-> 0, rq |-> FALSE, close |-> FALSE, writable |-> TRUE,
              chan |-> ChanCap, subcap |-> SubCap, opsize |-> SmallOpBytes, partial |-> FALSE,
              clock |-> FALSE, trace |-> FALSE,
           ws |-> FALSE, delay |-> FALSE, flushblocks |-> FALSE]

InitCancel == InitWith(LimCancel)

NextCancel ==
    \/ Subscribe
    \/ \E t \in Callers : SubscribeWait(t)
    \/ \E t \in Callers : SubscribeCancel(t)
    \/ \E t \in Callers : SubscribeResume(t)
    \/ \E id \in SubIds : SubscriptionDrop(id)
    \/ \E id \in SubIds : SubscriptionDropFields(id)
    \/ PollBegin
    \/ PollReadPending
    \/ ReceiveCommands
    \/ PollEnd

SpecCancel == InitCancel /\ [][NextCancel]_vars

\* numbered publishes with large payloads and numbered subscribes of one handle, on
\* a socket that takes some operations and then blocks
LimOrder == [subs |-> MaxSubs, req |-> 0, pub |-> MaxPub + 2, srv |-> 0, reconnect |-> 0,
             ping |-> 0, closeafter |-> 0, rq |-> FALSE, close |-> FALSE, writable |-> TRUE,
             chan |-> ChanCap, subcap |-> SubCap, opsize |-> PayloadBytes, partial |-> TRUE,
             clock |-> FALSE, trace |-> TRUE,
           ws |-> FALSE, delay |-> FALSE, flushblocks |-> FALSE]

InitOrder == InitWith(LimOrder)

NextOrder ==
    \/ PublishWithReply
    \/ SubscribeSubject
    \/ PollBegin
    \/ PollReadPending
    \/ ReceiveCommands
    \/ PollWrite
    \/ PollEnd

SpecOrder == InitOrder /\ [][NextOrder]_vars

\* the server operations of a stream of numbered messages for the first subscription,
\* with the -ERR that fails its subscribe; the server sends them once the
\* Subscribe operation was written to it, and the -ERR at most once
StreamOps ==
    IF \E k \in 1..Len(sock) : sock[k].op = "Subscribe"
    THEN {SrvMessage(FirstUserId, nserver + 1)}
            \cup (IF in_flight_commands # <<>> THEN {SrvError(Some(FALSE))} ELSE {})
    ELSE {}

\* one subscription whose channel holds more than one receive batch
LimStream == [subs |-> 1, req |-> 0, pub |-> 0, srv |-> BATCH_RECEIVE_SIZE + SubCap + MaxServerOps,
              reconnect |-> 0, ping |-> 0, closeafter |-> 0, rq |-> FALSE, close |-> FALSE,
              writable |-> TRUE, chan |-> ChanCap, subcap |-> BATCH_RECEIVE_SIZE + SubCap,
              opsize |-> SmallOpBytes, partial |-> FALSE, clock |-> FALSE, trace |-> TRUE,
           ws |-> FALSE, delay |-> FALSE, flushblocks |-> FALSE]

InitStream == InitWith(LimStream)

NextStream ==
    \/ Subscribe
    \/ PollNext(FirstUserId)
    \/ PollBegin
    \/ \E op \in StreamOps : PollRead(op)
    \/ PollReadPending
    \/ ReceiveCommands
    \/ PollEnd

SpecStream == InitStream /\ [][NextStream]_vars

\* publishes with large payloads and a close() on a command channel that holds more
\* than one receive batch, over a socket that takes some operations and then blocks
LimClose == [subs |-> 0, req |-> 0, pub |-> RECV_BUF + MaxPub, srv |-> 0, reconnect |-> 0,
             ping |-> 0, closeafter |-> 0, rq |-> FALSE, close |-> TRUE, writable |-> TRUE,
             chan |-> RECV_BUF + ChanCap, subcap |-> SubCap, opsize |-> PayloadBytes,
             partial |-> TRUE, clock |-> FALSE, trace |-> FALSE,
           ws |-> FALSE, delay |-> FALSE, flushblocks |-> FALSE]

InitClose == InitWith(LimClose)

NextClose ==
    \/ Publish
    \/ ClientClose
    \/ PollBegin
    \/ PollReadPending
    \/ ReceiveCommands
    \/ ReceiveClosed
    \/ PollWrite
    \/ PollEnd
    \/ ClientTask

SpecClose == InitClose /\ [][NextClose]_vars

\* subscriptions and publishes of a client that is closed
LimAfterClose == [subs |-> MaxSubs, req |-> 0, pub |-> MaxPub, srv |-> 0, reconnect |-> 0,
                  ping |-> 0, closeafter |-> 0, rq |-> FALSE, close |-> TRUE, writable |-> TRUE,
                  chan |-> ChanCap, subcap |-> SubCap, opsize |-> SmallOpBytes,
                  partial |-> FALSE, clock |-> FALSE, trace |-> FALSE,
           ws |-> FALSE, delay |-> FALSE, flushblocks |-> FALSE]

InitAfterClose == InitWith(LimAfterClose)

NextAfterClose ==
    \/ Subscribe
    \/ Publish
    \/ \E id \in SubIds : SubscriptionClose(id)
    \/ ClientClose
    \/ PollBegin
    \/ PollReadPending
    \/ ReceiveCommands
    \/ ReceiveClosed
    \/ PollEnd
    \/ ClientTask

SpecAfterClose == InitAfterClose /\ [][NextAfterClose]_vars

\* a handler whose clock runs, with server operations, publishes and a reconnect
LimPing == [subs |-> 0, req |-> 0, pub |-> MaxPub, srv |-> MaxServerOps + 1, reconnect |-> MaxReconnects,
            ping |-> MaxPings, closeafter |-> 0, rq |-> FALSE, close |-> FALSE, writable |-> TRUE,
            chan |-> ChanCap, subcap |-> SubCap, opsize |-> SmallOpBytes,
            partial |-> FALSE, clock |-> TRUE, trace |-> FALSE,
           ws |-> FALSE, delay |-> FALSE, flushblocks |-> FALSE]

InitPing == InitWith(LimPing)

NextPing ==
    \/ Tick
    \/ Publish
    \/ PollBegin
    \/ \E op \in ServerOps : PollRead(op)
    \/ PollReadPending
    \/ PollReadError
    \/ ReceiveCommands
    \/ PollEnd
    \/ ClientTask
    \/ ConnectBegin
    \/ ConnectFinish

SpecPing == InitPing /\ [][NextPing]_vars

\* the server operations that answer subscribes: messages, +OK and the non-fatal -ERR
AnswerOps ==
    {SrvMessage(i, 0) : i \in FirstUserId..(FirstUserId + lim.subs - 1)}
        \cup {SrvSuccess, SrvError(Some(FALSE))}

\* subscriptions on one connection whose server answers with messages and errors
LimErr == [subs |-> MaxSubs, req |-> 0, pub |-> 0, srv |-> MaxServerOps + 2, reconnect |-> 0,
           ping |-> 0, closeafter |-> MaxCloseAfter, rq |-> FALSE, close |-> FALSE, writable |-> TRUE,
           chan |-> ChanCap, subcap |-> SubCap, opsize |-> SmallOpBytes, partial |-> FALSE,
           clock |-> FALSE, trace |-> FALSE,
           ws |-> FALSE, delay |-> FALSE, flushblocks |-> FALSE]

InitErr == InitWith(LimErr)

NextErr ==
    \/ Subscribe
    \/ \E id \in SubIds : SubscriptionClose(id)
    \/ \E id \in SubIds : SubscriptionCloseAfter(id, 2)
    \/ \E id \in SubIds : PollNext(id)
    \/ \E id \in SubIds : SubscriptionDrop(id)
    \/ \E id \in SubIds : SubscriptionDropFields(id)
    \/ PollBegin
    \/ \E op \in AnswerOps : PollRead(op)
    \/ PollReadPending
    \/ ReceiveCommands
    \/ PollEnd

SpecErr == InitErr /\ [][NextErr]_vars

\* ------------------------------------------------------------------ claims
\* the positions of w holding an operation of kind op for subscription id
\* publishes over a streaming or a websocket connection, with and without a flush
\* interval, on a socket that takes some operations and then blocks and whose
\* flush may stay pending
LimFlush(websocket, interval) ==
    [subs |-> 0, req |-> 0, pub |-> MaxPub + 1, srv |-> 0, reconnect |-> MaxReconnects,
     ping |-> 0, closeafter |-> 0, rq |-> FALSE, close |-> FALSE, writable |-> TRUE,
     chan |-> ChanCap, subcap |-> SubCap, opsize |-> SmallOpBytes, partial |-> TRUE,
     clock |-> FALSE, trace |-> FALSE,
     ws |-> websocket, delay |-> interval, flushblocks |-> ~websocket]

InitFlush == \E websocket \in BOOLEAN, interval \in BOOLEAN : InitWith(LimFlush(websocket, interval))

NextFlush ==
    \/ Publish
    \/ PollBegin
    \/ PollReadPending
    \/ PollReadError
    \/ ReceiveCommands
    \/ PollWrite
    \/ PollEnd
    \/ DelayElapses
    \/ ClientTask
    \/ ConnectBegin
    \/ ConnectFinish

SpecFlush == InitFlush /\ [][NextFlush]_vars

OpsOf(w, op, id) == {k \in 1..Len(w) : w[k].op = op /\ w[k].id = id}

\* C1: once handle_server_op has returned Break(ServerError) for a fatal or unknown
\* -ERR, the Handler future has completed with ServerError (and the task recycles it)
C1_FatalErrorCompletesHandler == flow = "ServerError" => output = "ServerError"

\* a step of the handler task that belongs to a reconnect: recycle, or one of the
\* two halves of connect
ReconnectStep ==
    \/ hstate = "running" /\ hstate' = "recycled"
    \/ hstate = "recycled" /\ hstate' = "connecting"
    \/ hstate = "connecting" /\ hstate' = "running"

\* C2: across recycle and connect the subscription map is unchanged, the command
\* channel keeps every queued command and stays open, and no message channel of a
\* subscription loses its sender or its buffered messages
C2_ReconnectKeepsSubscriptions ==
    [][/\ ReconnectStep =>
            /\ subscriptions' = subscriptions
            /\ cmdq' = cmdq
            /\ chanClosed' = chanClosed
            /\ subchan' = subchan
            /\ \A id \in DOMAIN subscriptions : SenderAlive(id)'
       /\ (hstate \in {"recycled", "connecting"} /\ ~ReconnectStep) =>
            /\ subscriptions' = subscriptions
            /\ Len(cmdq') >= Len(cmdq) /\ SubSeq(cmdq', 1, Len(cmdq)) = cmdq
            /\ chanClosed' = chanClosed]_vars

\* C2 witness: a reconnect has completed with subscriptions in the map and a command
\* still queued
C2_Witness ==
    /\ hstate = "running" /\ nreconnect > 0 /\ pc = "idle"
    /\ Cardinality(DOMAIN subscriptions) = 2
    /\ Len(in_flight_commands) = 2
    /\ cmdq # <<>>

\* C3: connect enqueues exactly one Subscribe per entry of the recycled map, with
\* the entry's subject and queue group, in ascending id order; one
\* Unsubscribe{id, Some(remaining)} after the Subscribe of each id that has a
\* remaining count and none for the others; and nothing else
C3_ReplayOnReconnect ==
    [][(hstate = "connecting" /\ hstate' = "running") =>
        LET w == wire' IN
        /\ \A k \in 1..Len(w) : w[k].op \in {"Subscribe", "Unsubscribe"} /\ w[k].id \in DOMAIN subscriptions
        /\ \A id \in DOMAIN subscriptions :
            /\ Cardinality(OpsOf(w, "Subscribe", id)) = 1
            /\ \A k \in OpsOf(w, "Subscribe", id) :
                    w[k] = OpSubscribe(id, subscriptions[id].subject, subscriptions[id].queue_group)
            /\ IF IsSome(subscriptions[id].remaining)
               THEN /\ Cardinality(OpsOf(w, "Unsubscribe", id)) = 1
                    /\ \A k \in OpsOf(w, "Unsubscribe", id) :
                        /\ w[k].max = subscriptions[id].remaining
                        /\ \E j \in OpsOf(w, "Subscribe", id) : j < k
               ELSE OpsOf(w, "Unsubscribe", id) = {}
        /\ \A k, l \in 1..Len(w) :
            (k < l /\ w[k].op = "Subscribe" /\ w[l].op = "Subscribe") => w[k].id < w[l].id
        /\ cmdq' = cmdq]_vars

\* C3 witness: right after a reconnect the connection holds the replay of two
\* subscriptions, the first of them with a remaining count
C3_Witness ==
    /\ hstate = "running" /\ nreconnect > 0
    /\ Len(wire) = 3
    /\ wire[1].op = "Subscribe" /\ wire[2].op = "Unsubscribe" /\ wire[3].op = "Subscribe"
    /\ wire[1].id = wire[2].id /\ IsSome(wire[2].max)

\* the handler is parked: its last poll returned Pending, no command is queued and
\* the failed-unsubscribe flag is clear, so nothing will wake it on behalf of a drop
HandlerParked ==
    /\ hstate = "running" /\ pc = "idle" /\ output = "none"
    /\ cmdq = <<>>
    /\ ~quick_info.is_failed_unsubscribe

\* C4: a Subscription dropped while still subscribed is removed from the handler's
\* subscription map by the time the handler has nothing left to do
C4_DroppedSubscriptionRemoved ==
    \A id \in SubIds :
        (usub[id].life = "dropped" /\ usub[id].status = "Subscribed" /\ HandlerParked)
            => id \notin DOMAIN subscriptions

\* reply subject r has a waiter in the handler's multiplexed map
Registered(r) == IsSome(multiplexed_subscriptions) /\ r \in Unwrap(multiplexed_subscriptions)

\* C5: the reply subject of a multiplexed response future that was dropped before it
\* resolved has no entry in the multiplexed map by the time the handler has nothing
\* left to do
C5_DroppedWaiterRemoved ==
    \A r \in ReplySubjects : (mfut[r] = "dropped" /\ HandlerParked) => ~Registered(r)

RequestPublishes(w) == {k \in 1..Len(w) : w[k].op = "Publish" /\ IsSome(w[k].reply)}

\* C7: the operations enqueued on the current connection hold Subscribe{1, prefix.*}
\* exactly once if a RequestMultiplexed was processed on it and not at all otherwise,
\* directly ahead of that first request's Publish and so ahead of every request's
\* Publish; and a step that enqueues the Publish of a request leaves its waiter
\* registered, unless the same batch held its UnsubscribeMultiplexed
C7_LazyMultiplexedSubscribe ==
    /\ [](hstate = "running" =>
            /\ Cardinality(OpsOf(wire, "Subscribe", MULTIPLEXED_SUBSCRIPTION_ID))
                    = IF IsSome(multiplexed_subscriptions) THEN 1 ELSE 0
            /\ \A k \in OpsOf(wire, "Subscribe", MULTIPLEXED_SUBSCRIPTION_ID) :
                /\ wire[k] = OpSubscribe(MULTIPLEXED_SUBSCRIPTION_ID, "prefix.*", None)
                /\ k + 1 \in RequestPublishes(wire)
                /\ \A j \in RequestPublishes(wire) : k < j)
    /\ [][\A k \in RequestPublishes(wire') \ RequestPublishes(wire) :
            \/ Unwrap(wire'[k].reply) \in Unwrap(multiplexed_subscriptions')
            \/ \E j \in 1..Len(cmdq) : cmdq[j] = CmdUnsubscribeMultiplexed(Unwrap(wire'[k].reply))]_vars

\* C7 witness: on the connection made by a reconnect two requests were processed and
\* one Subscribe{1} was enqueued
C7_Witness ==
    /\ hstate = "running" /\ nreconnect > 0
    /\ Cardinality(RequestPublishes(wire)) = 2
    /\ Cardinality(OpsOf(wire, "Subscribe", MULTIPLEXED_SUBSCRIPTION_ID)) = 1

\* C8: a ResponseFut resolves once, and with the outcome of the first thing its
\* reply channel holds (503 -> NoResponders, another message -> Ok, a server error
\* -> ServerError, closed and empty -> SubscriptionClosed); it resolves with TimedOut
\* only when the channel holds nothing and is open; and a poll leaves it pending
\* only when there is neither a message, nor a close, nor an elapsed timeout
C8_ResponseResolvesOnFirstEvent ==
    /\ [](resp.out = "Pending" =>
            (ResponseFut_poll(resp) = "Pending"
                <=> (resp.chan = <<>> /\ ~resp.closed /\ ~resp.elapsed)))
    /\ [][/\ resp.out # "Pending" => resp'.out = resp.out
          /\ (resp.out = "Pending" /\ resp'.out # "Pending") =>
                IF resp.chan # <<>>
                THEN /\ Head(resp.chan) = "no_responders" => resp'.out = "NoResponders"
                     /\ Head(resp.chan) = "message" => resp'.out = "Ok"
                     /\ Head(resp.chan) = "server_error" =>
                            resp'.out = "ServerError" /\ resp.kind = "Subscription"
                ELSE IF resp.closed
                THEN resp'.out = "SubscriptionClosed"
                ELSE resp.elapsed /\ resp'.out = "TimedOut"]_vars

\* C8 witness: the future resolved with a message at a poll at which its timeout had
\* elapsed
C8_Witness == resp.out = "Ok" /\ resp.elapsed

\* C9: once request() has returned its ResponseFut and the handler has taken every
\* command, the handler has processed Subscribe{id}, then Unsubscribe{id, Some(1)},
\* then the Publish with the reply subject
C9_RequestCommandsInOrder ==
    (rq.pc = "done" /\ cmdq = <<>> /\ pc = "idle") =>
        \E i, j, k \in 1..Len(wire) :
            /\ i < j /\ j < k
            /\ wire[i].op = "Subscribe" /\ wire[i].id = rq.id
            /\ wire[j].op = "Unsubscribe" /\ wire[j].id = rq.id /\ wire[j].max = Some(1)
            /\ wire[k].op = "Publish" /\ wire[k].reply = Some(ExplicitReply)

\* C10: every id a subscribe call sent to the handler is at least 2 (never the
\* multiplexed id 1, never a wrapped value) and no id was sent twice
C10_UserIdsDistinctFromTwo ==
    /\ \A k \in 1..Len(cmdq) : cmdq[k].type = "Subscribe" =>
            /\ cmdq[k].id >= FirstUserId
            /\ cmdq[k].id \notin DOMAIN subscriptions
            /\ \A j \in 1..Len(cmdq) : (j # k /\ cmdq[j].type = "Subscribe") => cmdq[j].id # cmdq[k].id
    /\ \A id \in DOMAIN subscriptions : id >= FirstUserId

\* the ids that subscribe calls have drawn so far
DrawnIds == FirstUserId..(next_subscription_id - 1)

\* C11: a subscribe future holds no id while it waits for capacity, so every id
\* drawn so far belongs to a Subscription that was returned; dropping the waiting
\* future enqueues nothing, leaves the id counter and the status word as they
\* were, and every Unsubscribe sent is for the id of a returned Subscription
C11_SubscribeCancelSafe ==
    /\ [](/\ \A t \in Callers : callers[t].pc \in {"waiting", "cancelled"} => callers[t].id = 0
          /\ \A id \in DrawnIds : usub[id].life # "none"
          /\ \A k \in 1..Len(cmdq) : cmdq[k].type = "Unsubscribe" =>
                cmdq[k].id \in DrawnIds /\ usub[cmdq[k].id].life # "none"
          /\ \A k \in 1..Len(wire) : wire[k].op = "Unsubscribe" =>
                wire[k].id \in DrawnIds /\ usub[wire[k].id].life # "none")
    /\ [][\A t \in Callers :
            (callers[t].pc = "waiting" /\ callers'[t].pc = "cancelled") =>
                /\ cmdq' = cmdq
                /\ next_subscription_id' = next_subscription_id
                /\ quick_info' = quick_info
                /\ usub' = usub]_vars

\* C11 witness: a waiting subscribe was dropped and a later subscribe got the id
\* that was next at the time, which the handler has registered
C11_Witness ==
    /\ \E t \in Callers : callers[t].pc = "cancelled"
    /\ next_subscription_id = FirstUserId + lim.subs
    /\ next_subscription_id - 1 \in DOMAIN subscriptions

\* the step puts one command on the command channel: Unsubscribe{id, max = None}
EnqueuesUnsubscribe(id) ==
    /\ Len(cmdq') = Len(cmdq) + 1
    /\ SubSeq(cmdq', 1, Len(cmdq)) = cmdq
    /\ cmdq'[Len(cmdq')].type = "Unsubscribe"
    /\ cmdq'[Len(cmdq')].id = id
    /\ cmdq'[Len(cmdq')].max = None

\* the step is the drop of the Subscription of id
DropStep(id) == usub[id].life = "alive" /\ usub'[id].life = "dropping"

\* at most one Unsubscribe{id, None} per id: a step enqueues one only for a live
\* Subscription in status Subscribed, which it closes or drops with that step, and
\* neither a closed nor a dropped Subscription comes back; a drop after a close
\* enqueues nothing
AtMostOneUnsubscribe(id) ==
    /\ EnqueuesUnsubscribe(id) =>
            /\ usub[id].life = "alive" /\ usub[id].status = "Subscribed"
            /\ usub'[id].status = "Unsubscribed" \/ usub'[id].life = "dropping"
    /\ usub[id].status = "Unsubscribed" => usub'[id].status = "Unsubscribed"
    /\ usub[id].life \in {"dropping", "dropped"} => usub'[id].life \in {"dropping", "dropped"}
    /\ (DropStep(id) /\ usub[id].status = "Unsubscribed") => (cmdq' = cmdq /\ quick_info' = quick_info)

SeqOfOp(o) == IF o.op = "Publish" THEN Unwrap(o.reply) ELSE o.subject

\* the number a numbered command was enqueued with
SeqOfCmd(c) == IF c.type = "Publish" THEN Unwrap(c.reply) ELSE c.subject

\* C13: the operations written to the socket, followed by those in the write
\* buffer, followed by the commands still in the channel, are the commands of the
\* handle in the order it enqueued them: the k-th of them is command number k, a
\* Publish operation for a Publish and a Subscribe operation for a Subscribe
C13_WireOrderIsEnqueueOrder ==
    LET w == sock \o wire IN
    /\ \A k \in 1..Len(w) : SeqOfOp(w[k]) = k /\ w[k].op \in {"Publish", "Subscribe"}
    /\ \A k \in 1..Len(cmdq) :
            SeqOfCmd(cmdq[k]) = Len(w) + k /\ cmdq[k].type \in {"Publish", "Subscribe"}
    /\ Len(w) + Len(cmdq) = EnqueueSeq - 1

\* C13 witness: a Publish was written, the write buffer is out of space, and a
\* Subscribe enqueued after it waits in the channel for the pause to end
C13_Witness ==
    /\ pc = "recv" /\ ~may_enqueue_more_ops(wire)
    /\ sock # <<>> /\ sock[1].op = "Publish"
    /\ cmdq # <<>> /\ Head(cmdq).type = "Subscribe"

\* the items of subscription id that were sent and not yet yielded, oldest first
Pending(id) == Reverse(subchan[id].receiver_queue) \o subchan[id].chan

\* a step in which the stream of subscription id returned Ready
PollNextStep(id) ==
    /\ usub[id].life = "alive" /\ usub'[id].life = "alive"
    /\ \/ subchan'[id].receiver_queue # subchan[id].receiver_queue
       \/ Len(subchan'[id].chan) < Len(subchan[id].chan)
       \/ usub[id].status = "Subscribed" /\ usub'[id].status = "Unsubscribed"

\* s is t with some items added at its end
IsPrefix(s, t) == Len(s) <= Len(t) /\ SubSeq(t, 1, Len(s)) = s

\* C14: every item the stream yields is the oldest item that was sent and not yet
\* yielded, and it is removed from the buffers, whatever the size of the batch the
\* receive buffer took; the stream yields None only when nothing is buffered and
\* the handler's sender is gone; no other step removes or reorders an item
C14_StreamYieldsInOrder ==
    [][\A id \in SubIds :
        IF PollNextStep(id)
        THEN IF Pending(id) # <<>>
             THEN /\ poll_next_item(subchan[id]) = Some(Head(Pending(id)))
                  /\ Pending(id)' = Tail(Pending(id))
             ELSE /\ poll_next_item(subchan[id]) = None
                  /\ ~SenderAlive(id)
                  /\ Pending(id)' = <<>>
        ELSE IsPrefix(Pending(id), Pending(id)')]_vars

\* C14 witness: the receive buffer took a full batch of 16 items, yielded the
\* first, and the channel still holds a later item
C14_Witness ==
    /\ Len(subchan[FirstUserId].receiver_queue) = BATCH_RECEIVE_SIZE - 1
    /\ subchan[FirstUserId].chan # <<>>
    /\ \A k \in 1..(BATCH_RECEIVE_SIZE - 1) :
            subchan[FirstUserId].receiver_queue[k].subject = BATCH_RECEIVE_SIZE + 1 - k

\* C15: once the handler processed a Close command the command channel is closed,
\* so that senders fail, and when the handler returns Closed no command is left in
\* the channel: every command that was queued has been turned into its operation
C15_CloseDrainsQueuedCommands ==
    /\ (hstate = "running" /\ awaiting_close > 0) => chanClosed
    /\ (hstate = "running" /\ output = "Closed") => cmdq = <<>>

\* C16: when the handler returns Closed, and when close() returns after it, the
\* write buffer is empty: every operation enqueued for the server was written
C16_ClosedOnlyWhenWritten ==
    (output = "Closed" \/ hstate = "closed") => wire = <<>>

\* Client::close returned: the handler that held the one-shot sender was dropped
CloseReturned == close_called /\ hstate = "closed"

\* C17: after close() returned, publish and unsubscribe through enqueue_command,
\* subscribe, and close() of every Subscription still held fail with
\* ClientClosedError, the try_ variants fail with a TryCommandError, and the command
\* channel holds nothing
C17_AttemptsAfterCloseFail ==
    CloseReturned =>
        /\ enqueue_command_result = "ClientClosedError"
        /\ subscribe_result = "ClientClosedError"
        /\ try_enqueue_command_result \in {"Closed", "BufferFull"}
        /\ try_subscribe_result \in {"Closed", "BufferFull"}
        /\ cmdq = <<>>
        /\ \A id \in SubIds :
                (usub[id].life = "alive" /\ usub[id].status = "Subscribed")
                    => subscription_close_result(id) = "ClientClosedError"

RECURSIVE NumPings(_)
\* the Ping operations among the operations w
NumPings(w) == IF w = <<>> THEN 0 ELSE (IF Head(w).op = "Ping" THEN 1 ELSE 0) + NumPings(Tail(w))

\* the step in which the ping timer fires
TimerFires == nping' = nping + 1

\* C18: the timer fires only when 10 s passed without a server operation being
\* handled; a firing with pending_pings < 2 enqueues exactly one Ping and adds one
\* to pending_pings, a firing with pending_pings >= 2 returns Disconnected and
\* enqueues nothing; on a connection whose server sent nothing the handler returns
\* Disconnected at the third firing and not before
C18_PingTimer ==
    [][TimerFires =>
        /\ quiet >= PING_INTERVAL
        /\ IF pending_pings < 2
           THEN /\ wire' = Append(wire, OpPing)
                /\ NumPings(wire') = NumPings(wire) + 1
                /\ pending_pings' = pending_pings + 1
                /\ output' = "none"
           ELSE /\ output' = "Disconnected"
                /\ wire' = wire
                /\ pending_pings' = pending_pings
        /\ (nserver = 0 /\ nreconnect = 0) => (output' = "Disconnected" <=> nping = 2)]_vars

\* C18 witness: the timer fired three times on a silent server and the third
\* firing returned Disconnected
C18_Witness ==
    /\ nping = 3 /\ nserver = 0 /\ nreconnect = 0
    /\ output = "Disconnected" /\ pending_pings = 2

\* C19: pending_pings is 0, 1 or 2; handling a Pong takes one off it unless it is
\* 0, handling any other server operation or any queued command leaves it alone;
\* a step changes it only by adding one when the timer fires and enqueues a Ping,
\* by taking one off when a server operation is handled and it is above 0, or by
\* setting it to 0 for a new connection
C19_PendingPings ==
    /\ [](pending_pings \in {0, 1, 2})
    /\ [](\A op \in ServerOps :
            handle_server_op(HandlerView, op).pending_pings =
                IF op = SrvPong THEN (IF pending_pings = 0 THEN 0 ELSE pending_pings - 1)
                ELSE pending_pings)
    /\ [](HandleBatch(HandlerView, cmdq).pending_pings = pending_pings)
    /\ [][pending_pings' # pending_pings =>
            \/ /\ TimerFires
               /\ pending_pings' = pending_pings + 1
               /\ NumPings(wire') = NumPings(wire) + 1
            \/ /\ nserver' = nserver + 1
               /\ pending_pings > 0 /\ pending_pings' = pending_pings - 1
            \/ /\ hstate' \in {"recycled", "running"} /\ hstate' # hstate
               /\ pending_pings' = 0]_vars

\* C19 witness: a Pong was handled while two Pings were unanswered, and another
\* Pong arrives with none unanswered
C19_Witness ==
    /\ pending_pings = 1 /\ nping = 2 /\ nserver = 1 /\ nreconnect = 0 /\ pc = "read"

\* C20: no update of the quick_info word undoes a bit another caller wrote: an
\* is_failed_unsubscribe that reads TRUE goes back to FALSE only in the step in
\* which the handler's poll sweeps the failed unsubscribes and clears it
C20_QuickInfoBitsNeverLost ==
    [][(quick_info.is_failed_unsubscribe /\ ~quick_info'.is_failed_unsubscribe)
            => (hstate = "running" /\ pc = "idle" /\ pc' = "read")]_vars

\* the handler after it handled a non-fatal -ERR in this state
AfterNonFatalError == handle_server_op(HandlerView, SrvError(Some(FALSE)))

\* the -ERR pops Subscribe{id} and the map holds id
ErrorPopsSubscribe(id) ==
    /\ in_flight_commands # <<>>
    /\ Head(in_flight_commands) = InFlightSubscribe(id)
    /\ id \in DOMAIN subscriptions

\* the error is put on the channel of id, id leaves the map, nothing else changes
DeliveredAndRemoved(id) ==
    /\ AfterNonFatalError.subchan = [subchan EXCEPT ![id].chan = Append(@, ItemErr)]
    /\ AfterNonFatalError.subscriptions = MapRemove(subscriptions, id)

\* C21 as stated: whenever the -ERR pops Subscribe{id} of a subscription whose
\* receiver is alive, the error is delivered on the channel of id and id is
\* removed from the map
C21_ErrorAlwaysDelivered ==
    \A id \in SubIds :
        (ErrorPopsSubscribe(id) /\ usub[id].life # "dropped") => DeliveredAndRemoved(id)

\* C21: a non-fatal -ERR pops the oldest in-flight entry. When it is Subscribe{id}
\* and the map holds id: with a free slot in the channel of id the error is put on
\* that channel and id is removed; with the receiver gone id is removed and nothing
\* is sent; with the channel full nothing is sent, id stays in the map marked
\* failed_subscribe and is_failed_unsubscribe is set. No other channel or map entry
\* changes, and when the entry is Unimportant, or names an id the map does not
\* hold, no channel and no map entry changes
C21_NonFatalErrorDelivery ==
    in_flight_commands # <<>> =>
        /\ AfterNonFatalError.in_flight_commands = Tail(in_flight_commands)
        /\ \A id \in SubIds : ErrorPopsSubscribe(id) =>
                IF usub[id].life = "dropped"
                THEN /\ AfterNonFatalError.subchan = subchan
                     /\ AfterNonFatalError.subscriptions = MapRemove(subscriptions, id)
                ELSE IF Len(subchan[id].chan) < lim.subcap
                THEN DeliveredAndRemoved(id)
                ELSE /\ AfterNonFatalError.subchan = subchan
                     /\ AfterNonFatalError.subscriptions =
                            [subscriptions EXCEPT ![id].failed_subscribe = TRUE]
                     /\ AfterNonFatalError.quick_info.is_failed_unsubscribe
        /\ (\A id \in SubIds : ~ErrorPopsSubscribe(id)) =>
                /\ AfterNonFatalError.subchan = subchan
                /\ AfterNonFatalError.subscriptions = subscriptions

\* C21 witness: one subscription got the error on its channel and left the map,
\* another one lost its error to a full channel and stays in the map, marked
C21_Witness ==
    \E id, other \in SubIds :
        /\ id \notin DOMAIN subscriptions
        /\ \E k \in 1..Len(subchan[id].chan) : subchan[id].chan[k] = ItemErr
        /\ other \in DOMAIN subscriptions
        /\ subscriptions[other].failed_subscribe
        /\ \A k \in 1..Len(subchan[other].chan) : subchan[other].chan[k] # ItemErr

\* the commands the handler takes from the channel in this step
TakenCommands == SubSeq(cmdq, 1, Len(cmdq) - Len(cmdq'))

\* this step takes a command of type t for id, with max m when it is an Unsubscribe
Takes(t, id) ==
    /\ pc = "recv" /\ Len(cmdq') < Len(cmdq)
    /\ \E k \in 1..Len(TakenCommands) :
            /\ TakenCommands[k].type = t /\ TakenCommands[k].id = id
            /\ t = "Unsubscribe" => TakenCommands[k].max = None

\* this step enqueues exactly one Unsubscribe{id, None} for the server
EnqueuesOneUnsubscribe(id) ==
    /\ Len(wire') >= Len(wire)
    /\ Cardinality({k \in (Len(wire) + 1)..Len(wire') : wire'[k] = OpUnsubscribe(id, None)}) = 1

EndOfPoll == hstate = "running" /\ output = "none" /\ pc = "idle"

\* something is there to flush: the write buffer of the connection holds operations,
\* or a write succeeded since the last completed flush
SomethingToFlush == wire # <<>> \/ unflushed

\* C23: whenever the flushing flag is true at the end of a poll, the write buffer of
\* the connection is non-empty or a write succeeded since the last completed flush
C23_FlushingOnlyWhenWritten == (EndOfPoll /\ flushing) => SomethingToFlush

\* the same on the streaming connection alone, whose may_flush is set by a
\* successful write and cleared by a completed flush
FlushingOnlyWhenWrittenStreaming == ~lim.ws => C23_FlushingOnlyWhenWritten

\* a streaming poll that ends flushing: the flush of written operations stays pending
FlushingStreamingReached == ~lim.ws /\ EndOfPoll /\ flushing /\ unflushed


\* commands left the command channel: what it holds now does not begin with what it held
CommandsLeave == ~IsPrefix(cmdq, cmdq')

\* the commands that left are one batch from the front of the channel, and the write
\* buffer and the in-flight queue are the ones handling the whole batch gives
BatchProcessed ==
    /\ TakenCommands # <<>>
    /\ Len(TakenCommands) <= RECV_BUF
    /\ cmdq' = SubSeq(cmdq, Len(TakenCommands) + 1, Len(cmdq))
    /\ wire' = HandleBatch(HandlerView, TakenCommands).wire
    /\ in_flight_commands' = HandleBatch(HandlerView, TakenCommands).in_flight_commands

\* C24: commands leave the command channel only as a batch taken while the
\* connection reports may_enqueue_more_ops, and every command of the batch is
\* processed; otherwise they stay in the channel and none is dropped
C24_Backpressure ==
    [][CommandsLeave => (Connection_may_enqueue_more_ops(wire) /\ BatchProcessed)]_vars

\* the connection reports no more space while commands wait in the channel
BackpressureReached == ~Connection_may_enqueue_more_ops(wire) /\ cmdq # <<>> /\ pc = "idle"


\* ------------------------------------------------- the Happy Eyeballs dialer
Families == {"Ipv4", "Ipv6"}

\* LastAttempted::opposite
opposite(kind) == IF kind = "Ipv4" THEN "Ipv6" ELSE "Ipv4"

RECURSIVE position(_, _, _)
\* the for loop of next_dns_record: the first index from i on whose record is of
\* the family kind, 0 when there is none
position(q, kind, i) ==
    IF i > Len(q) THEN 0
    ELSE IF q[i].family = kind THEN i ELSE position(q, kind, i + 1)

\* Vec::remove
remove(q, i) == SubSeq(q, 1, i - 1) \o SubSeq(q, i + 1, Len(q))

\* a choice of family that would start with IPv4
next_kind_ipv4_first(last) == IF IsSome(last) THEN opposite(Unwrap(last)) ELSE "Ipv4"

\* next_kind in next_dns_record: last_attempted.map_or(Ipv6, opposite)
next_kind(last) == IF IsSome(last) THEN opposite(Unwrap(last)) ELSE "Ipv6"

\* HappyEyeballsProj::next_dns_record on the queue q
next_dns_record(q, last) ==
    IF q = <<>> THEN [record |-> None, dns_received |-> q, last_attempted |-> last]
    ELSE LET i == position(q, next_kind(last), 1) IN
         IF i > 0
         THEN [record |-> Some(q[i]), dns_received |-> remove(q, i),
               last_attempted |-> Some(next_kind(last))]
         ELSE [record |-> Some(q[1]), dns_received |-> Tail(q),
               last_attempted |-> Some(q[1].family)]

\* what a poll of the stream returns
Item(kind, addr) == [kind |-> kind, addr |-> addr]

\* a dialer that would start an attempt at every poll
make_new_attempt_at_once(h) == TRUE

\* make_new_attempt in poll_next: no attempt is in progress, or the delay is not pending
make_new_attempt(h) == h.connecting = {} \/ h.next_attempt_delay # "pending"

\* HappyEyeballs::poll_next. The resolver yields y records and then ends or is
\* pending; pick is the completed attempt that FuturesUnordered returns when there
\* is one; instant is what the first poll of a new attempt finds
poll_next(h, y, ended, pick, instant) ==
    LET d == IF IsSome(h.dns) THEN Unwrap(h.dns) ELSE <<>>
        received == h.dns_received \o SubSeq(d, 1, y)
        h1 == [h EXCEPT !.dns = IF ~IsSome(h.dns) \/ ended THEN None ELSE Some(SubSeq(d, y + 1, Len(d))),
                        !.dns_received = received]
        dead_end == (~IsSome(h.dns) \/ (ended /\ y = 0)) /\ h.connecting = {}
        done == {c \in h.connecting : c.state # "pending"}
        polled == h.connecting # {} /\ h.next_attempt_delay = "elapsed"
        h2 == [h1 EXCEPT !.next_attempt_delay = IF polled THEN "none" ELSE @]
        r == next_dns_record(received, h.last_attempted)
    IN  IF done # {}
        THEN [h |-> [h1 EXCEPT !.connecting = @ \ {pick}],
              item |-> Item(IF pick.state = "ok" THEN "Ok" ELSE "Err", Some(pick.addr))]
        ELSE IF ~make_new_attempt(h)
        THEN [h |-> h1, item |-> Item("Pending", None)]
        ELSE IF ~IsSome(r.record)
        THEN [h |-> h2, item |-> Item(IF dead_end THEN "None" ELSE "Pending", None)]
        ELSE LET a == Unwrap(r.record)
                 h3 == [h1 EXCEPT !.dns_received = r.dns_received,
                                  !.last_attempted = r.last_attempted,
                                  !.next_attempt_delay = "pending",
                                  !.expired = FALSE,
                                  !.attempts = Append(@, a)]
             IN IF instant = "pending"
                THEN [h |-> [h3 EXCEPT !.connecting = @ \cup {[addr |-> a, state |-> "pending"]}],
                      item |-> Item("Pending", None)]
                ELSE [h |-> h3, item |-> Item(IF instant = "ok" THEN "Ok" ELSE "Err", Some(a))]

\* the loop of happy_eyeballs::connect on what the stream returned
connect_loop(r) ==
    IF r.item.kind = "Ok" THEN [r.h EXCEPT !.out = [kind |-> "Ok", addr |-> r.item.addr]]
    ELSE IF r.item.kind = "Err" THEN [r.h EXCEPT !.last_err = r.item.addr]
    ELSE IF r.item.kind = "None"
    THEN [r.h EXCEPT !.out = IF IsSome(r.h.last_err) THEN [kind |-> "Err", addr |-> r.h.last_err]
                              ELSE [kind |-> "NoAddress", addr |-> None]]
    ELSE r.h

\* one poll of the stream by happy_eyeballs::connect
DialPoll ==
    /\ happy_eyeballs.out.kind = "Running"
    /\ LET h == happy_eyeballs
           d == IF IsSome(h.dns) THEN Unwrap(h.dns) ELSE <<>>
           done == {c \in h.connecting : c.state # "pending"}
       IN \E y \in 0..Len(d), ended \in BOOLEAN, instant \in {"pending", "ok", "err"},
             pick \in (IF done = {} THEN {[addr |-> Addr("Ipv4", 0), state |-> "pending"]} ELSE done) :
            /\ ended => y = Len(d)
            /\ ~h.lazy => (ended /\ y = Len(d))
            /\ happy_eyeballs' = connect_loop(poll_next(h, y, ended, pick, instant))
    /\ UNCHANGED <<clientVars, handshake, decoder, encoder>>

\* an attempt in progress succeeds or fails
AttemptCompletes(c, state) ==
    /\ happy_eyeballs.out.kind = "Running"
    /\ c \in happy_eyeballs.connecting /\ c.state = "pending"
    /\ happy_eyeballs' = [happy_eyeballs EXCEPT !.connecting = (@ \ {c}) \cup {[c EXCEPT !.state = state]}]
    /\ UNCHANGED <<clientVars, handshake, decoder, encoder>>

\* CONN_ATTEMPT_DELAY has passed since the last attempt was started
AttemptDelayElapses ==
    /\ happy_eyeballs.out.kind = "Running"
    /\ happy_eyeballs.next_attempt_delay = "pending"
    /\ happy_eyeballs' = [happy_eyeballs EXCEPT !.next_attempt_delay = "elapsed", !.expired = TRUE]
    /\ UNCHANGED <<clientVars, handshake, decoder, encoder>>

\* the answers of the resolver: up to MaxAddrs addresses of either family
Resolved == UNION {[1..n -> Families] : n \in 0..MaxAddrs}

InitDial ==
    /\ InitCore(LimNone) /\ resp = ResponseFutNew("Subscription") /\ NoHandshake /\ NoDecoder /\ NoEncoder
    /\ \E f \in Resolved, lazy \in BOOLEAN :
            /\ lazy => Len(f) <= MaxLazyAddrs
            /\ happy_eyeballs = HappyEyeballs_new([i \in 1..Len(f) |-> Addr(f[i], i)], lazy)

NextDial ==
    \/ DialPoll
    \/ \E c \in happy_eyeballs.connecting, state \in {"ok", "err"} : AttemptCompletes(c, state)
    \/ AttemptDelayElapses

SpecDial == InitDial /\ [][NextDial]_vars


\* the dialer starts an attempt on the address a
Attempts(a) == happy_eyeballs'.attempts = Append(happy_eyeballs.attempts, a)

\* the addresses that stay queued when an attempt starts
Queued == {happy_eyeballs'.dns_received[k] : k \in 1..Len(happy_eyeballs'.dns_received)}

\* the family the next attempt should be of
Wanted ==
    IF IsSome(happy_eyeballs.last_attempted) THEN opposite(Unwrap(happy_eyeballs.last_attempted))
    ELSE "Ipv6"

\* C26: the address of a new attempt is the first queued address of the family
\* opposite to the one attempted last (IPv6 at the start), or the head of the queue
\* when no address of that family is queued; the answer v4a, v6a, v4b, v6b of a
\* resolver that is never pending is attempted in the order v6a, v4a, v6b, v4b
C26_NextCandidate ==
    /\ [][\A a \in {Addr(f, n) : f \in Families, n \in 1..MaxAddrs} : Attempts(a) =>
            IF a.family = Wanted
            THEN \A b \in Queued : b.family = Wanted => b.n > a.n
            ELSE \A b \in Queued : b.family # Wanted /\ b.n > a.n]_vars
    /\ []((~happy_eyeballs.lazy /\ Len(happy_eyeballs.addrs) = 4
            /\ \A k \in 1..4 : happy_eyeballs.addrs[k].family = (IF k % 2 = 1 THEN "Ipv4" ELSE "Ipv6"))
          => IsPrefix(happy_eyeballs.attempts,
                      <<Addr("Ipv6", 2), Addr("Ipv4", 1), Addr("Ipv6", 4), Addr("Ipv4", 3)>>))

\* C26 witness: the four addresses of the example were attempted, none completed
C26_Witness ==
    /\ happy_eyeballs.attempts = <<Addr("Ipv6", 2), Addr("Ipv4", 1), Addr("Ipv6", 4), Addr("Ipv4", 3)>>
    /\ Cardinality(happy_eyeballs.connecting) = 4
    /\ \A c \in happy_eyeballs.connecting : c.state = "pending"

\* connect returns: the loop of happy_eyeballs::connect leaves with a result
Returns(kinds) == happy_eyeballs.out.kind = "Running" /\ happy_eyeballs'.out.kind \in kinds

\* C27: every resolved address is attempted at most once; an attempt starts only
\* when no attempt is in progress or the delay since the last start has expired;
\* a success ends the dialing with that connection; the dialing fails only when the
\* resolver has ended, the queue is empty and no attempt is in progress, with the
\* last connect error, or with the no-address error when there was none
C27_Dialer ==
    /\ [](\A j, k \in 1..Len(happy_eyeballs.attempts) :
            happy_eyeballs.attempts[j] = happy_eyeballs.attempts[k] => j = k)
    /\ [](\A k \in 1..Len(happy_eyeballs.attempts) :
            \E n \in 1..Len(happy_eyeballs.addrs) : happy_eyeballs.addrs[n] = happy_eyeballs.attempts[k])
    /\ [][happy_eyeballs'.attempts # happy_eyeballs.attempts =>
            (happy_eyeballs.connecting = {} \/ happy_eyeballs.expired)]_vars
    /\ [][\A c \in happy_eyeballs.connecting :
            happy_eyeballs'.connecting = happy_eyeballs.connecting \ {c} =>
                IF c.state = "ok"
                THEN happy_eyeballs'.out = [kind |-> "Ok", addr |-> Some(c.addr)]
                ELSE /\ c.state = "err"
                     /\ happy_eyeballs'.out.kind = "Running"
                     /\ happy_eyeballs'.last_err = Some(c.addr)]_vars
    /\ [][Returns({"Ok"}) =>
            \E k \in 1..Len(happy_eyeballs'.attempts) :
                happy_eyeballs'.attempts[k] = Unwrap(happy_eyeballs'.out.addr)]_vars
    /\ [][Returns({"Err", "NoAddress"}) =>
            /\ ~IsSome(happy_eyeballs'.dns)
            /\ happy_eyeballs'.dns_received = <<>>
            /\ happy_eyeballs'.connecting = {}
            /\ happy_eyeballs'.out.addr = happy_eyeballs.last_err
            /\ (happy_eyeballs'.out.kind = "NoAddress") = (happy_eyeballs.last_err = None)]_vars
    /\ [][happy_eyeballs'.last_err # happy_eyeballs.last_err =>
            \/ [addr |-> Unwrap(happy_eyeballs'.last_err), state |-> "err"] \in happy_eyeballs.connecting
            \/ Attempts(Unwrap(happy_eyeballs'.last_err))]_vars

\* C27 witness: the dialing failed after an attempt that was started while another
\* one was in progress, every address having been attempted
C27_Witness ==
    /\ happy_eyeballs.out.kind = "Err"
    /\ Len(happy_eyeballs.attempts) = MaxAddrs
    /\ happy_eyeballs.expired


\* ------------------------------------------------------ the connect handshake
\* what read_next returns on a new connection: a server operation or a read error;
\* IncompleteFrame and Closed are errors of the websocket connection only
HandshakeOps == {"Info", "Success", "Pong", "Ping", "Error", "Message"}
StreamingReadErrors == {"Io", "Decoder"}
WebsocketReadErrors == {"Io", "Decoder", "IncompleteFrame", "Closed"}
ReadErrors(websocket) == IF websocket THEN WebsocketReadErrors ELSE StreamingReadErrors

\* the connection right after the transport is set up, in connector::connect
Handshake_new(websocket) ==
    [pc |-> "first", websocket |-> websocket, read |-> <<>>, written |-> <<>>, enqueued |-> <<>>,
     out |-> "Running"]

\* connector::connect, the first read_next: Info is kept, any other operation is
\* UnexpectedServerOp, a read error is Io or Decoder, and the two further errors of
\* the websocket connection reach todo!()
first_read(h, e) ==
    LET h1 == [h EXCEPT !.read = Append(@, e)] IN
    IF e = "Info" THEN [h1 EXCEPT !.pc = "connect"]
    ELSE IF e \in HandshakeOps THEN [h1 EXCEPT !.pc = "done", !.out = "UnexpectedServerOp"]
    ELSE IF e \in {"Io", "Decoder"} THEN [h1 EXCEPT !.pc = "done", !.out = e]
    ELSE [h1 EXCEPT !.pc = "done", !.out = "Panic"]

\* connection::connect up to its read loop: Connect is enqueued, written and
\* flushed, then Ping; a failed write_and_flush is ConnectError::Io
send_connect(h, ok) ==
    IF ok THEN [h EXCEPT !.pc = "read", !.written = @ \o <<"Connect", "Ping">>]
    ELSE [h EXCEPT !.pc = "done", !.out = "Io"]

\* one turn of the read loop of connection::connect
read_loop(h, e) ==
    LET h1 == [h EXCEPT !.read = Append(@, e)] IN
    IF e = "Success" THEN h1
    ELSE IF e = "Pong" THEN [h1 EXCEPT !.pc = "done", !.out = "Ok"]
    ELSE IF e = "Ping" THEN [h1 EXCEPT !.enqueued = Append(@, "Pong")]
    ELSE IF e = "Error" THEN [h1 EXCEPT !.pc = "done", !.out = "ServerError"]
    ELSE IF e \in {"Info", "Message"} THEN [h1 EXCEPT !.pc = "done", !.out = "UnexpectedOp"]
    ELSE IF e = "Decoder" THEN [h1 EXCEPT !.pc = "done", !.out = "Proto"]
    ELSE IF e = "Io" THEN [h1 EXCEPT !.pc = "done", !.out = "Io"]
    ELSE [h1 EXCEPT !.pc = "done", !.out = "Panic"]

HandshakeFirstRead(e) ==
    /\ handshake.pc = "first"
    /\ e \in HandshakeOps \cup ReadErrors(handshake.websocket)
    /\ handshake' = first_read(handshake, e)
    /\ UNCHANGED <<clientVars, happy_eyeballs, decoder, encoder>>

HandshakeSend(ok) ==
    /\ handshake.pc = "connect"
    /\ handshake' = send_connect(handshake, ok)
    /\ UNCHANGED <<clientVars, happy_eyeballs, decoder, encoder>>

HandshakeRead(e) ==
    /\ handshake.pc = "read"
    /\ e \in HandshakeOps \cup ReadErrors(handshake.websocket)
    /\ e \in {"Success", "Ping"} => Len(handshake.read) < MaxHandshakeOps
    /\ handshake' = read_loop(handshake, e)
    /\ UNCHANGED <<clientVars, happy_eyeballs, decoder, encoder>>

InitHandshake ==
    /\ InitCore(LimNone) /\ resp = ResponseFutNew("Subscription") /\ NoDial /\ NoDecoder /\ NoEncoder
    /\ \E websocket \in BOOLEAN : handshake = Handshake_new(websocket)

NextHandshake ==
    \/ \E e \in HandshakeOps \cup WebsocketReadErrors : HandshakeFirstRead(e)
    \/ \E ok \in BOOLEAN : HandshakeSend(ok)
    \/ \E e \in HandshakeOps \cup WebsocketReadErrors : HandshakeRead(e)

SpecHandshake == InitHandshake /\ [][NextHandshake]_vars

\* the errors connect can return
ConnectErrors == {"Io", "Decoder", "Proto", "UnexpectedServerOp", "UnexpectedOp", "ServerError"}

\* what the handshake read last
LastRead == handshake.read[Len(handshake.read)]

\* the number of Ping operations among the first n the handshake read
RECURSIVE PingsRead(_)
PingsRead(n) == IF n = 0 THEN 0 ELSE (IF handshake.read[n] = "Ping" THEN 1 ELSE 0) + PingsRead(n - 1)

\* C25: the handshake succeeds only after Info came first and, with Connect and
\* Ping written, a Pong was read, only Success and Ping operations in between;
\* every server Ping has a Pong enqueued; Error ends it with the server error, Info
\* or Message with the unexpected-operation error; a first operation other than
\* Info, and a read error at any time, end it with a connect error
C25_Handshake ==
    /\ handshake.out = "Ok" =>
            /\ handshake.read[1] = "Info" /\ LastRead = "Pong"
            /\ handshake.written = <<"Connect", "Ping">>
            /\ \A k \in 2..(Len(handshake.read) - 1) : handshake.read[k] \in {"Success", "Ping"}
    /\ handshake.read # <<>> => Len(handshake.enqueued) = PingsRead(Len(handshake.read)) - (IF handshake.read[1] = "Ping" THEN 1 ELSE 0)
    /\ (Len(handshake.read) > 1 /\ LastRead = "Pong") => handshake.out = "Ok"
    /\ (Len(handshake.read) > 1 /\ LastRead = "Error") => handshake.out = "ServerError"
    /\ (Len(handshake.read) > 1 /\ LastRead \in {"Info", "Message"}) => handshake.out = "UnexpectedOp"
    /\ (Len(handshake.read) = 1 /\ LastRead # "Info") => handshake.out \in ConnectErrors
    /\ (handshake.read # <<>> /\ LastRead \in WebsocketReadErrors) => handshake.out \in ConnectErrors

\* the same on the streaming connection alone
HandshakeStreaming == ~handshake.websocket => C25_Handshake

\* a streaming handshake that succeeded after a Success and a server Ping
HandshakeStreamingReached ==
    /\ ~handshake.websocket /\ handshake.out = "Ok"
    /\ handshake.read = <<"Info", "Success", "Ping", "Pong">>

\* ------------------------------------------------------------- bytes on the wire

\* a byte string is a sequence of runs, n copies of the byte named c in each,
\* and no two neighbouring runs of the same byte
Cat(a, b) ==
    IF a = <<>> THEN b
    ELSE IF b = <<>> THEN a
    ELSE IF a[Len(a)].c = b[1].c
    THEN SubSeq(a, 1, Len(a) - 1) \o <<[c |-> b[1].c, n |-> a[Len(a)].n + b[1].n]>> \o Tail(b)
    ELSE a \o b

\* n copies of the byte c
Fill(c, n) == IF n = 0 THEN <<>> ELSE <<[c |-> c, n |-> n]>>

RECURSIVE Str(_)
\* the byte string of a text given byte by byte
Str(chars) == IF chars = <<>> THEN <<>> ELSE Cat(Fill(Head(chars), 1), Str(Tail(chars)))

RECURSIVE Join(_)
\* the byte strings of a sequence, one after the other
Join(parts) == IF parts = <<>> THEN <<>> ELSE Cat(Head(parts), Join(Tail(parts)))

RECURSIVE ByteLen(_)
\* Buf::remaining: the number of bytes of a byte string
ByteLen(b) == IF b = <<>> THEN 0 ELSE b[1].n + ByteLen(Tail(b))

RECURSIVE split_to(_, _)
\* the first at bytes of b
split_to(b, at) ==
    IF at = 0 \/ b = <<>> THEN <<>>
    ELSE IF b[1].n <= at THEN <<b[1]>> \o split_to(Tail(b), at - b[1].n)
    ELSE <<[c |-> b[1].c, n |-> at]>>

RECURSIVE advance(_, _)
\* b without its first cnt bytes
advance(b, cnt) ==
    IF cnt = 0 \/ b = <<>> THEN b
    ELSE IF b[1].n <= cnt THEN advance(Tail(b), cnt - b[1].n)
    ELSE <<[c |-> b[1].c, n |-> b[1].n - cnt]>> \o Tail(b)

\* the number of bytes of b ahead of its run j
Offset(b, j) == ByteLen(SubSeq(b, 1, j - 1))

\* memchr::memchr, memchr2: the offset of the first byte of b that is one of set
memchr(set, b) ==
    LET at == {j \in 1..Len(b) : b[j].c \in set}
    IN IF at = {} THEN None ELSE Some(Offset(b, CHOOSE j \in at : \A k \in at : j <= k))

\* memchr::memmem::find(b, "\r\n"): the offset of the first carriage return of b
\* that a line feed follows
find_crlf(b) ==
    LET at == {j \in 1..(Len(b) - 1) : b[j].c = "\r" /\ b[j + 1].c = "\n"}
    IN IF at = {} THEN None
       ELSE Some(Offset(b, 1 + CHOOSE j \in at : \A k \in at : j <= k) - 1)

starts_with(b, chars) == split_to(b, Len(chars)) = Str(chars)
ends_with(b, chars) == ByteLen(b) >= Len(chars) /\ advance(b, ByteLen(b) - Len(chars)) = Str(chars)

RECURSIVE Expand(_)
\* the bytes of b one by one
Expand(b) ==
    IF b = <<>> THEN <<>>
    ELSE <<b[1].c>> \o Expand(advance(b, 1))

\* a line terminator of the line feed alone
BareLineFeed == Str(<<"\n">>)
\* the line terminator of the protocol
CRLF == Str(<<"\r", "\n">>)
SP == Str(<<" ">>)

\* ------------------------------------------------------------- the encoder

DecimalDigits == <<"0", "1", "2", "3", "4", "5", "6", "7", "8", "9">>

RECURSIVE Display(_)
\* Display for an unsigned integer: its decimal digits
Display(n) ==
    IF n < 10 THEN Fill(DecimalDigits[n + 1], 1)
    ELSE Cat(Display(n \div 10), Fill(DecimalDigits[(n % 10) + 1], 1))

\* ClientOp with the fields the encoder writes: subjects, queue groups, header names and
\* values, payloads and the Connect document are byte strings, headers a sequence of
\* <<name, value>> in the order of the HeaderMap
ClientOp_Publish(subject, reply_subject, headers, payload) ==
    [op |-> "Publish", subject |-> subject, reply_subject |-> reply_subject, headers |-> headers,
     payload |-> payload, id |-> 0, queue_group |-> None, max_messages |-> None, connect |-> <<>>]
ClientOp_Subscribe(id, subject, queue_group) ==
    [op |-> "Subscribe", subject |-> subject, reply_subject |-> None, headers |-> <<>>,
     payload |-> <<>>, id |-> id, queue_group |-> queue_group, max_messages |-> None, connect |-> <<>>]
ClientOp_Unsubscribe(id, max_messages) ==
    [op |-> "Unsubscribe", subject |-> <<>>, reply_subject |-> None, headers |-> <<>>,
     payload |-> <<>>, id |-> id, queue_group |-> None, max_messages |-> max_messages, connect |-> <<>>]
ClientOp_Connect(connect) ==
    [op |-> "Connect", subject |-> <<>>, reply_subject |-> None, headers |-> <<>>,
     payload |-> <<>>, id |-> 0, queue_group |-> None, max_messages |-> None, connect |-> connect]
ClientOp_Ping ==
    [op |-> "Ping", subject |-> <<>>, reply_subject |-> None, headers |-> <<>>,
     payload |-> <<>>, id |-> 0, queue_group |-> None, max_messages |-> None, connect |-> <<>>]
ClientOp_Pong ==
    [op |-> "Pong", subject |-> <<>>, reply_subject |-> None, headers |-> <<>>,
     payload |-> <<>>, id |-> 0, queue_group |-> None, max_messages |-> None, connect |-> <<>>]

RECURSIVE encode_header_lines(_)
encode_header_lines(headers) ==
    IF headers = <<>> THEN <<>>
    ELSE <<Head(headers)[1], Str(<<":", " ">>), Head(headers)[2], CRLF>> \o encode_header_lines(Tail(headers))

\* encode_headers: the head line, one line per value, the empty line
encode_headers(headers) ==
    Join(<<Str(<<"N", "A", "T", "S", "/", "1", ".", "0">>), CRLF>> \o encode_header_lines(headers) \o <<CRLF>>)

\* encode: the bytes of one ClientOp
encode(item) ==
    CASE item.op = "Publish" ->
           LET verb == IF item.headers = <<>> THEN Str(<<"P", "U", "B">>) ELSE Str(<<"H", "P", "U", "B">>)
               reply == IF IsSome(item.reply_subject) THEN <<Unwrap(item.reply_subject), SP>> ELSE <<>>
               payload_len == ByteLen(item.payload)
               headers_len == ByteLen(encode_headers(item.headers))
               total_len == headers_len + payload_len
               lens == IF item.headers = <<>>
                       THEN <<Display(payload_len), CRLF>>
                       ELSE <<Display(headers_len), SP, Display(total_len), CRLF, encode_headers(item.headers)>>
           IN Join(<<verb, SP, item.subject, SP>> \o reply \o lens \o <<item.payload, CRLF>>)
      [] item.op = "Subscribe" ->
           IF IsSome(item.queue_group)
           THEN Join(<<Str(<<"S", "U", "B">>), SP, item.subject, SP, Unwrap(item.queue_group), SP,
                       Display(item.id), CRLF>>)
           ELSE Join(<<Str(<<"S", "U", "B">>), SP, item.subject, SP, Display(item.id), CRLF>>)
      [] item.op = "Unsubscribe" ->
           IF IsSome(item.max_messages)
           THEN Join(<<Str(<<"U", "N", "S", "U", "B">>), SP, Display(item.id), SP,
                       Display(Unwrap(item.max_messages)), CRLF>>)
           ELSE Join(<<Str(<<"U", "N", "S", "U", "B">>), SP, Display(item.id), CRLF>>)
      [] item.op = "Connect" ->
           Join(<<Str(<<"C", "O", "N", "N", "E", "C", "T">>), SP, item.connect, CRLF>>)
      [] item.op = "Ping" -> Join(<<Str(<<"P", "I", "N", "G">>), CRLF>>)
      [] item.op = "Pong" -> Join(<<Str(<<"P", "O", "N", "G">>), CRLF>>)

\* ------------------------------------------------------------- the decoder

MAX_HEAD_LEN == 16 * 1024

\* ByteString::try_from: the bytes are UTF-8; 0xFF stands for a byte no UTF-8 text holds
is_utf8(b) == \A j \in 1..Len(b) : b[j].c # "0xFF"

is_ascii_digit(c) == \E d \in 1..10 : DecimalDigits[d] = c
is_whitespace(c) == c \in {" ", "\t", "\r", "\n"}

RECURSIVE parse_digits(_, _)
parse_digits(chars, val) ==
    IF chars = <<>> THEN val
    ELSE parse_digits(Tail(chars), val * 10 + (CHOOSE d \in 0..9 : DecimalDigits[d + 1] = Head(chars)))

\* parse_unsigned!: the value of the digits of buf, of no digit at all too; the numbers
\* of the inputs are far from the width of the integer
parse_usize(buf) ==
    IF \A j \in 1..Len(buf) : is_ascii_digit(buf[j].c)
    THEN [ok |-> TRUE, val |-> parse_digits(Expand(buf), 0)]
    ELSE [ok |-> FALSE, val |-> 0]

RECURSIVE skip_spaces(_)
\* the take_while of split_spaces: bytes without its leading spaces and tabs
skip_spaces(bytes) ==
    IF bytes # <<>> /\ bytes[1].c \in {" ", "\t"} THEN skip_spaces(Tail(bytes)) ELSE bytes

RECURSIVE split_chunks(_, _)
split_chunks(bytes, left) ==
    IF left = 0 THEN <<>>
    ELSE LET i == memchr({" ", "\t"}, bytes)
         IN IF i = None
            THEN (IF bytes = <<>> THEN <<>> ELSE <<bytes>>)
            ELSE <<split_to(bytes, Unwrap(i))>>
                     \o split_chunks(skip_spaces(advance(bytes, Unwrap(i))), left - 1)

\* util::split_spaces: at most six chunks
split_spaces(bytes) == split_chunks(bytes, 6)

RECURSIVE lines_iter(_)
\* util::lines_iter: the lines of bytes, the line terminators left out
lines_iter(bytes) ==
    IF bytes = <<>> THEN <<>>
    ELSE LET i == find_crlf(bytes)
         IN IF i = None THEN <<bytes>>
            ELSE <<split_to(bytes, Unwrap(i))>> \o lines_iter(advance(bytes, Unwrap(i) + 2))

\* DecoderStatus
ControlLine(last_bytes_read) == [kind |-> "ControlLine", last_bytes_read |-> last_bytes_read]
Headers(subscription_id, subject, reply_subject, header_len, payload_len) ==
    [kind |-> "Headers", subscription_id |-> subscription_id, subject |-> subject,
     reply_subject |-> reply_subject, header_len |-> header_len, payload_len |-> payload_len]
Payload(subscription_id, subject, reply_subject, status_code, headers, payload_len) ==
    [kind |-> "Payload", subscription_id |-> subscription_id, subject |-> subject,
     reply_subject |-> reply_subject, status_code |-> status_code, headers |-> headers,
     payload_len |-> payload_len]
Poisoned == [kind |-> "Poisoned"]

\* ServerOp as the decoder builds it; the Info document and the error message stay bytes
ServerOp_Success == [type |-> "Success"]
ServerOp_Ping == [type |-> "Ping"]
ServerOp_Pong == [type |-> "Pong"]
ServerOp_Error(raw_message) == [type |-> "Error", error |-> raw_message]
ServerOp_Info(info) == [type |-> "Info", info |-> info]
ServerOp_Message(status_code, subscription_id, subject, reply_subject, headers, payload) ==
    [type |-> "Message", status_code |-> status_code, subscription_id |-> subscription_id,
     subject |-> subject, reply_subject |-> reply_subject, headers |-> headers, payload |-> payload]

\* what a call returns: Ok(None), Ok(Some(op)), Err(err), or a panic
OkNone == [kind |-> "None"]
OkSome(op) == [kind |-> "Some", op |-> op]
Err(err) == [kind |-> "Err", err |-> err]
Panic == [kind |-> "Panic"]

Status(status) == [ok |-> TRUE, status |-> status, err |-> ""]
Fails(err) == [ok |-> FALSE, status |-> Poisoned, err |-> err]

\* decode_msg: the status after a MSG control line, or the error
decode_msg(line) ==
    LET chunks == split_spaces(advance(line, 4))
        reply == Len(chunks) = 4
        subject == chunks[1]
        subscription_id == parse_usize(chunks[2])
        reply_subject == IF reply THEN Some(chunks[3]) ELSE None
        payload_len == parse_usize(chunks[Len(chunks)])
    IN IF Len(chunks) \notin {3, 4} THEN Fails("InvalidMsgArgsCount")
       ELSE IF ~is_utf8(subject) THEN Fails("SubjectInvalidUtf8")
       ELSE IF ~subscription_id.ok THEN Fails("SubscriptionId")
       ELSE IF reply /\ ~is_utf8(chunks[3]) THEN Fails("SubjectInvalidUtf8")
       ELSE IF ~payload_len.ok THEN Fails("InvalidPayloadLength")
       ELSE Status(Payload(subscription_id.val, subject, reply_subject, None, <<>>, payload_len.val))

\* decode_hmsg: the status after a HMSG control line, or the error
decode_hmsg(line) ==
    LET chunks == split_spaces(advance(line, 5))
        reply == Len(chunks) = 5
        subject == chunks[1]
        subscription_id == parse_usize(chunks[2])
        reply_subject == IF reply THEN Some(chunks[3]) ELSE None
        header_len == parse_usize(chunks[Len(chunks) - 1])
        total_len == parse_usize(chunks[Len(chunks)])
    IN IF Len(chunks) \notin {4, 5} THEN Fails("InvalidHmsgArgsCount")
       ELSE IF ~is_utf8(subject) THEN Fails("SubjectInvalidUtf8")
       ELSE IF ~subscription_id.ok THEN Fails("SubscriptionId")
       ELSE IF reply /\ ~is_utf8(chunks[3]) THEN Fails("SubjectInvalidUtf8")
       ELSE IF ~header_len.ok THEN Fails("InvalidHeaderLength")
       ELSE IF ~total_len.ok THEN Fails("InvalidPayloadLength")
       ELSE IF total_len.val < header_len.val THEN Fails("InvalidTotalLength")
       ELSE Status(Headers(subscription_id.val, subject, reply_subject, header_len.val,
                           total_len.val - header_len.val))

\* validate_header_name and validate_header_value
validate_header_name(name) ==
    IF name = <<>> THEN "Empty"
    ELSE IF ByteLen(name) > 64 THEN "TooLong"
    ELSE IF \E j \in 1..Len(name) : is_whitespace(name[j].c) \/ name[j].c = ":" THEN "IllegalCharacter"
    ELSE "Ok"
validate_header_value(value) ==
    IF value = <<>> THEN "Empty"
    ELSE IF ByteLen(value) > 1024 THEN "TooLong"
    ELSE IF \E j \in 1..Len(value) : is_whitespace(value[j].c) THEN "IllegalCharacter"
    ELSE "Ok"

\* the closure decode_headers maps over the lines that are not empty: Ok with the
\* pair of the line, the error, or the panic of line[0] on a line that ends at its colon
header_line(line) ==
    LET i == memchr({":"}, line)
        name == split_to(line, Unwrap(i))
        after == advance(line, Unwrap(i) + 1)
        value == IF is_whitespace(after[1].c) THEN advance(after, 1) ELSE after
    IN IF i = None THEN [kind |-> "Err", err |-> "InvalidHeaderLine", pair |-> <<>>]
       ELSE IF after = <<>> THEN [kind |-> "Panic", err |-> "", pair |-> <<>>]
       ELSE IF ~is_utf8(name) THEN [kind |-> "Err", err |-> "HeaderNameInvalidUtf8", pair |-> <<>>]
       ELSE IF validate_header_name(name) # "Ok" THEN [kind |-> "Err", err |-> "HeaderName", pair |-> <<>>]
       ELSE IF ~is_utf8(value) THEN [kind |-> "Err", err |-> "HeaderValueInvalidUtf8", pair |-> <<>>]
       ELSE IF validate_header_value(value) # "Ok" THEN [kind |-> "Err", err |-> "HeaderValue", pair |-> <<>>]
       ELSE [kind |-> "Ok", err |-> "", pair |-> <<name, value>>]

RECURSIVE collect_headers(_, _)
\* the collect of decode_headers: the pairs of the lines in their order, up to the first
\* line that fails
collect_headers(lines, acc) ==
    IF lines = <<>> THEN [kind |-> "Ok", err |-> "", headers |-> acc]
    ELSE IF Head(lines) = <<>> THEN collect_headers(Tail(lines), acc)
    ELSE LET r == header_line(Head(lines))
         IN IF r.kind = "Ok" THEN collect_headers(Tail(lines), Append(acc, r.pair))
            ELSE [kind |-> r.kind, err |-> r.err, headers |-> <<>>]

\* StatusCode::from_ascii_bytes
StatusCode_from_ascii_bytes(buf) ==
    IF ByteLen(buf) # 3 \/ ~parse_usize(buf).ok THEN [ok |-> FALSE, val |-> 0]
    ELSE [ok |-> parse_usize(buf).val \in 100..999, val |-> parse_usize(buf).val]

\* decode_headers, replaced being the status that the mem::replace leaves behind
read_headers(read_buf, status, replaced) ==
    LET header == split_to(read_buf, status.header_len)
        rest == advance(read_buf, status.header_len)
        lines == lines_iter(header)
        prefix == <<"N", "A", "T", "S", "/", "1", ".", "0">>
        head == advance(lines[1], Len(prefix))
        code == StatusCode_from_ascii_bytes(split_to(advance(head, 1), 3))
        status_code == IF ByteLen(head) >= 4 THEN Some(code.val) ELSE None
        headers == collect_headers(Tail(lines), <<>>)
        failed(out) == [read_buf |-> rest, status |-> replaced, out |-> out]
    IN IF lines = <<>> THEN failed(Err("MissingHead"))
       ELSE IF ~starts_with(lines[1], prefix) THEN failed(Err("InvalidHead"))
       ELSE IF ByteLen(head) >= 4 /\ ~code.ok THEN failed(Err("StatusCode"))
       ELSE IF headers.kind = "Panic" THEN failed(Panic)
       ELSE IF headers.kind = "Err" THEN failed(Err(headers.err))
       ELSE [read_buf |-> rest,
             status |-> Payload(status.subscription_id, status.subject, status.reply_subject,
                                status_code, headers.headers, status.payload_len),
             out |-> OkNone]

\* a decode_headers that would put the decoder back on the control line when it fails
decode_headers_resuming(read_buf, status) == read_headers(read_buf, status, ControlLine(0))

\* decode_headers: the status is Poisoned from the mem::replace on, and Payload
\* only once the whole block is read
decode_headers(read_buf, status) == read_headers(read_buf, status, Poisoned)

\* serde_json::from_slice::<ServerInfo>: Ok on the one document the inputs hold
ServerInfoJson == Str(<<"{", "i", "}">>)

\* the -ERR arm of decode on the bytes after the prefix: the message between its quotes;
\* the inputs hold no message of one quote alone
decode_error(message) ==
    IF ~starts_with(message, <<"'">>) \/ ~ends_with(message, <<"'">>) \/ ~is_utf8(message)
    THEN Err("InvalidErrorMessage")
    ELSE OkSome(ServerOp_Error(split_to(advance(message, 1), ByteLen(message) - 2)))

\* the INFO arm of decode on the bytes after the prefix
decode_info(info) == IF info = ServerInfoJson THEN OkSome(ServerOp_Info(info)) ELSE Err("InvalidInfo")

\* what decode returns with the status it was called in
Return(status, read_buf, out) == [status |-> status, read_buf |-> read_buf, out |-> out]

RECURSIVE decode(_, _)
\* decode on a whole control_line, read_buf being the bytes after its terminator
decode_control_line(status, control_line, read_buf) ==
    IF starts_with(control_line, <<"+", "O", "K">>) THEN Return(status, read_buf, OkSome(ServerOp_Success))
    ELSE IF starts_with(control_line, <<"M", "S", "G", " ">>)
    THEN (IF decode_msg(control_line).ok
          THEN decode(decode_msg(control_line).status, read_buf)
          ELSE Return(status, read_buf, Err(decode_msg(control_line).err)))
    ELSE IF starts_with(control_line, <<"H", "M", "S", "G", " ">>)
    THEN (IF decode_hmsg(control_line).ok
          THEN decode(decode_hmsg(control_line).status, read_buf)
          ELSE Return(status, read_buf, Err(decode_hmsg(control_line).err)))
    ELSE IF starts_with(control_line, <<"P", "I", "N", "G">>) THEN Return(status, read_buf, OkSome(ServerOp_Ping))
    ELSE IF starts_with(control_line, <<"P", "O", "N", "G">>) THEN Return(status, read_buf, OkSome(ServerOp_Pong))
    ELSE IF starts_with(control_line, <<"-", "E", "R", "R", " ">>)
    THEN Return(status, read_buf, decode_error(advance(control_line, 5)))
    ELSE IF starts_with(control_line, <<"I", "N", "F", "O", " ">>)
    THEN Return(status, read_buf, decode_info(advance(control_line, 5)))
    ELSE IF ByteLen(read_buf) > MAX_HEAD_LEN THEN Return(status, read_buf, Err("HeadTooLong"))
    ELSE Return(status, read_buf, Err("InvalidCommand"))

\* decode: the status and the read buffer after the call, and what it returns
decode(status, read_buf) ==
    CASE status.kind = "ControlLine" ->
           IF status.last_bytes_read = ByteLen(read_buf)
           THEN Return(status, read_buf, OkNone)
           ELSE IF find_crlf(read_buf) = None
           THEN Return(ControlLine(ByteLen(read_buf)), read_buf, OkNone)
           ELSE decode_control_line(status, split_to(read_buf, Unwrap(find_crlf(read_buf))),
                                    advance(read_buf, Unwrap(find_crlf(read_buf)) + 2))
      [] status.kind = "Headers" ->
           IF ByteLen(read_buf) < status.header_len
           THEN Return(status, read_buf, OkNone)
           ELSE IF decode_headers(read_buf, status).out.kind = "None"
           THEN decode(decode_headers(read_buf, status).status, decode_headers(read_buf, status).read_buf)
           ELSE decode_headers(read_buf, status)
      [] status.kind = "Payload" ->
           IF ByteLen(read_buf) < status.payload_len + 2
           THEN [status |-> status, read_buf |-> read_buf, out |-> OkNone]
           ELSE [status |-> ControlLine(0),
                 read_buf |-> advance(read_buf, status.payload_len + 2),
                 out |-> OkSome(ServerOp_Message(status.status_code, status.subscription_id,
                                                 status.subject, status.reply_subject, status.headers,
                                                 split_to(read_buf, status.payload_len)))]
      [] status.kind = "Poisoned" ->
           [status |-> status, read_buf |-> read_buf, out |-> Err("Poisoned")]

\* ------------------------------------------------------------- a StreamDecoder at work

\* the bytes of a text the server could send
Line(chars) == Cat(Str(chars), CRLF)
HeadLine == Line(<<"N", "A", "T", "S", "/", "1", ".", "0">>)
PingLine == Line(<<"P", "I", "N", "G">>)

\* what a server sends on a connection: well-formed operations, an unknown command,
\* a MSG short of arguments, HMSG with a good and with two bad header blocks, a block
\* that ends a header line at its colon, and bytes that never hold a line terminator
GoodStreams ==
    {Join(<<PingLine, Line(<<"+", "O", "K">>)>>),
     Join(<<Line(<<"M", "S", "G", " ", "a", " ", "2", " ", "1">>), Line(<<"x">>), Line(<<"P", "O", "N", "G">>)>>),
     Join(<<Line(<<"H", "M", "S", "G", " ", "a", " ", "2", " ", "1", "2", " ", "1", "3">>),
            HeadLine, CRLF, Line(<<"x">>)>>)}
\* HMSG whose header block has the line "h:"
ColonEndedStream ==
    Join(<<Line(<<"H", "M", "S", "G", " ", "a", " ", "2", " ", "1", "6", " ", "1", "6">>),
           HeadLine, Line(<<"h", ":">>), CRLF, CRLF>>)
BadStreams ==
    {Join(<<Line(<<"F", "O", "O">>), PingLine>>),
     Join(<<Line(<<"M", "S", "G", " ", "a">>), PingLine>>),
     Join(<<Line(<<"H", "M", "S", "G", " ", "a", " ", "2", " ", "1", "2", " ", "1", "3">>),
            Line(<<"B", "A", "T", "S", "/", "1", ".", "0">>), CRLF, Line(<<"x">>), PingLine>>),
     Join(<<Line(<<"H", "M", "S", "G", " ", "a", " ", "2", " ", "1", "5", " ", "1", "5">>),
            HeadLine, Line(<<"h">>), CRLF, CRLF, PingLine>>),
     ColonEndedStream}
EndlessStreams ==
    {Fill("x", MAX_HEAD_LEN + 1),
     Join(<<Line(<<"F", "O", "O">>), Fill("x", MAX_HEAD_LEN + 1)>>)}
ServerStreams == GoodStreams \cup BadStreams \cup EndlessStreams
\* HMSG whose header block, of 3 bytes, ends inside its status line
ShortBlockStreams ==
    {Join(<<Line(<<"H", "M", "S", "G", " ", "a", " ", "2", " ", "3", " ", "4">>),
            HeadLine, CRLF, Line(<<"x">>)>>)}

\* the ClientOps the encoder is given
ClientOps ==
    {ClientOp_Ping, ClientOp_Pong, ClientOp_Connect(Str(<<"{", "c", "}">>)),
     ClientOp_Subscribe(2, Str(<<"a">>), None), ClientOp_Subscribe(10, Str(<<"a">>), Some(Str(<<"q">>))),
     ClientOp_Unsubscribe(2, None), ClientOp_Unsubscribe(2, Some(3)),
     ClientOp_Publish(Str(<<"a">>), None, <<>>, <<>>),
     ClientOp_Publish(Str(<<"a">>), Some(Str(<<"r">>)), <<>>, Str(<<"P", "I", "N", "G">>)),
     ClientOp_Publish(Str(<<"a">>), None, <<<<Str(<<"h">>), Str(<<"v">>)>>>>, Str(<<"x">>)),
     ClientOp_Publish(Str(<<"a">>), None, <<>>, Fill("x", MAX_HEAD_LEN + 1))}

\* StreamDecoder::new, with the bytes socket that its reader will be handed, the ClientOp
\* item they encode if any, and attached telling the decoder of the connection of a
\* Handler from one that a caller drives; out is what the last call of decode returned,
\* sent all the bytes the socket was given,
\* returned what the calls returned but for Ok(None), decoded that decode was called
\* since the last read, pc the place in the loop of poll_read_next
StreamDecoder_new(socket, item, attached) ==
    [status |-> ControlLine(0), read_buf |-> <<>>, socket |-> socket, item |-> item,
     attached |-> attached, pc |-> "decode", out |-> OkNone, returned |-> <<>>,
     decoded |-> FALSE, reads |-> 0, sent |-> socket]

\* StreamDecoder::decode
StreamDecoder_decode(d) ==
    LET r == decode(d.status, d.read_buf)
    IN [d EXCEPT !.status = r.status,
                 !.read_buf = r.read_buf,
                 !.out = r.out,
                 !.returned = IF r.out.kind = "None" THEN d.returned ELSE Append(d.returned, r.out),
                 !.decoded = TRUE]

\* the sizes a read of the socket can have: a few bytes, or all that is left
ReadSizes(d) ==
    ({ByteLen(d.socket)} \cup (IF d.reads < MaxReads THEN 1..Min(MaxRead, ByteLen(d.socket)) ELSE {})) \ {0}

\* n bytes of the socket go into StreamDecoder::read_buf
read_buf(d, n) ==
    [d EXCEPT !.read_buf = Cat(d.read_buf, split_to(d.socket, n)),
              !.socket = advance(d.socket, n),
              !.decoded = FALSE,
              !.reads = d.reads + 1]

\* a caller of StreamDecoder puts bytes into read_buf
DecoderRead ==
    /\ ~decoder.attached
    /\ \E n \in ReadSizes(decoder) : decoder' = read_buf(decoder, n)
    /\ UNCHANGED <<clientVars, happy_eyeballs, handshake, encoder>>

\* a call of decode: by a caller of StreamDecoder, or by
\* StreamingConnection::poll_read_next in the read loop of Handler::poll, which goes on
\* to match on what decode returned
DecoderDecode ==
    /\ decoder.pc = "decode"
    /\ decoder.attached => (Polling /\ pc = "read")
    /\ Len(decoder.returned) < MaxDecodeCalls
    /\ decoder' = [StreamDecoder_decode(decoder) EXCEPT
                      !.pc = IF decoder.attached THEN "match" ELSE "decode"]
    /\ UNCHANGED <<clientVars, happy_eyeballs, handshake, encoder>>

InitCodec ==
    /\ InitCore(LimNone) /\ resp = ResponseFutNew("Subscription") /\ NoDial /\ NoHandshake /\ NoEncoder
    /\ \/ \E item \in ClientOps : decoder = StreamDecoder_new(encode(item), Some(item), FALSE)
       \/ \E socket \in ServerStreams \cup ShortBlockStreams :
              decoder = StreamDecoder_new(socket, None, FALSE)

NextCodec ==
    \/ DecoderRead
    \/ DecoderDecode

SpecCodec == InitCodec /\ [][NextCodec]_vars

\* ------------------------------------------------------------- claims on the codec

\* the bytes in the decoder are those of a ClientOp that the encoder wrote
Encoded == IsSome(decoder.item)
\* the ClientOp and the ServerOp are the same variant, and the variant has no field
SameOp(item, op) == item.op = op.type /\ op \in {ServerOp_Ping, ServerOp_Pong}

\* C28 as worded: whatever decode returns on the bytes of an encoded ClientOp, other than
\* that it needs more bytes, is that same operation
C28_RoundTrip ==
    (Encoded /\ decoder.out.kind # "None")
        => (decoder.out.kind = "Some" /\ Unwrap(decoder.item).op = decoder.out.op.type)

\* C28, amended: the bytes of Ping and of Pong decode to the same operation, once and as
\* soon as decode is called with all of them read; on the bytes of every other ClientOp
\* the first thing decode returns, other than that it needs more bytes, is the error
\* InvalidCommand or HeadTooLong, the decoder reading server operations only
C28_PingPongRoundTrip ==
    Encoded =>
        IF Unwrap(decoder.item).op \in {"Ping", "Pong"}
        THEN /\ \A k \in 1..Len(decoder.returned) :
                    /\ k = 1
                    /\ decoder.returned[k].kind = "Some"
                    /\ SameOp(Unwrap(decoder.item), decoder.returned[k].op)
             /\ (decoder.socket = <<>> /\ decoder.decoded) => Len(decoder.returned) = 1
        ELSE decoder.returned # <<>> =>
                 /\ decoder.returned[1].kind = "Err"
                 /\ decoder.returned[1].err \in {"InvalidCommand", "HeadTooLong"}

\* Ping or Pong went through the encoder and the decoder
C28_Witness ==
    /\ Encoded /\ Unwrap(decoder.item).op \in {"Ping", "Pong"}
    /\ decoder.reads > 1
    /\ decoder.returned = <<OkSome([type |-> Unwrap(decoder.item).op])>>

\* an encoded Publish was refused for the bytes that follow its control line
PublishHeadTooLong ==
    /\ Encoded /\ Unwrap(decoder.item).op = "Publish"
    /\ decoder.returned # <<>> /\ decoder.returned[1] = Err("HeadTooLong")

\* the decoder is on a control line and its buffer holds more than MAX_HEAD_LEN bytes
\* and no line terminator
LongHead ==
    /\ decoder.status.kind = "ControlLine"
    /\ ByteLen(decoder.read_buf) > MAX_HEAD_LEN
    /\ find_crlf(decoder.read_buf) = None

\* a step in which decode is seen to be called: the first call after a read, or a call
\* that returns an operation or an error
DecodeCalled == (decoder'.decoded /\ ~decoder.decoded) \/ decoder'.returned # decoder.returned

\* C29: on a control line, a read buffer of more than 16 KiB without a line terminator
\* makes decode fail with HeadTooLong, never report that it made no progress
C29_HeadTooLong == [][(LongHead /\ DecodeCalled) => decoder'.out = Err("HeadTooLong")]_vars

\* what decode does with such a buffer: it returns Ok(None), keeps every byte and
\* remembers the length
NoProgressOnLongHead ==
    [][(LongHead /\ DecodeCalled) =>
           /\ decoder'.out = OkNone
           /\ decoder'.read_buf = decoder.read_buf
           /\ decoder'.status = ControlLine(ByteLen(decoder.read_buf))]_vars

\* HeadTooLong is the error of an unknown command that more than MAX_HEAD_LEN bytes follow
HeadTooLongReached ==
    /\ decoder.out = Err("HeadTooLong")
    /\ ByteLen(decoder.read_buf) > MAX_HEAD_LEN

\* ------------------------------------------------------------- the handler reads its connection

userNoDecoder == <<next_subscription_id, usub, mfut, rq, close_called, npub, ncloseafter, lim,
                   happy_eyeballs, handshake, encoder, resp, callers>>

\* the ServerOp that handle_server_op is given: the messages of the streams are for the
\* first subscription of a user, their error message is one that ServerError::parse
\* keeps as Other, their Info document has no lame_duck_mode
HandlerOp(op) ==
    CASE op.type = "Message" -> SrvMessage(op.subscription_id, 0)
      [] op.type = "Success" -> SrvSuccess
      [] op.type = "Ping" -> SrvPing
      [] op.type = "Pong" -> SrvPong
      [] op.type = "Error" -> SrvError(None)
      [] op.type = "Info" -> SrvInfo(FALSE)

\* what the server sends on the connection of a handler
HandlerStreams == GoodStreams \cup BadStreams

\* StreamingConnection::poll_read_next, the match on what decode returned: an operation
\* is handled by the handler, an error ends its poll with Disconnected, the panic of
\* decode_headers ends the handler task, Ok(None) goes on to the socket
PollReadNextMatch ==
    /\ decoder.attached /\ decoder.pc = "match"
    /\ Polling /\ pc = "read"
    /\ \/ /\ decoder.out.kind = "Some"
          /\ \E op \in {HandlerOp(decoder.out.op)} : ReadReady(op)
          /\ decoder' = [decoder EXCEPT !.pc = "decode"]
       \/ /\ decoder.out.kind = "Err"
          /\ ReadFailed
          /\ decoder' = [decoder EXCEPT !.pc = "decode"]
       \/ /\ decoder.out.kind = "Panic"
          /\ hstate' = "panicked"
          /\ decoder' = [decoder EXCEPT !.pc = "decode"]
          /\ UNCHANGED <<cmdq, chanClosed, subchan, mdeliv, quick_info, pc, output, shutting_down,
                         pending_pings, in_flight_commands, subscriptions,
                         multiplexed_subscriptions, awaiting_close, wire, flow, qi_prev, nserver,
                         nreconnect, nping, sock, ping_interval, quiet, handled_server_op>>
          /\ UNCHANGED flushVars
       \/ /\ decoder.out.kind = "None"
          /\ decoder' = [decoder EXCEPT !.pc = "socket"]
          /\ UNCHANGED clientVars
    /\ UNCHANGED userNoDecoder

\* StreamingConnection::poll_read_next, the read of the socket: Pending ends the read
\* loop of the handler, bytes go to the decoder, Ok(0) and Err are an Io error
PollReadNextSocket ==
    /\ decoder.attached /\ decoder.pc = "socket"
    /\ Polling /\ pc = "read"
    /\ \/ ReadPending /\ decoder' = [decoder EXCEPT !.pc = "decode"]
       \/ /\ \E n \in ReadSizes(decoder) : decoder' = [read_buf(decoder, n) EXCEPT !.pc = "decode"]
          /\ UNCHANGED clientVars
       \/ /\ nreconnect < lim.reconnect
          /\ ReadFailed /\ decoder' = [decoder EXCEPT !.pc = "decode"]
    /\ UNCHANGED userNoDecoder

\* Handler::connect, the rest, with the StreamDecoder of the new connection; the last
\* connection of a configuration is sent well-formed bytes
ConnectFinishAttached ==
    /\ decoder.attached
    /\ Reconnected
    /\ \E socket \in (IF nreconnect < lim.reconnect THEN HandlerStreams ELSE GoodStreams) :
           decoder' = StreamDecoder_new(socket, None, TRUE)
    /\ UNCHANGED userNoDecoder

LimRead == [LimNone EXCEPT !.subs = 1, !.srv = 3 * (MaxReconnects + 1), !.reconnect = MaxReconnects]

\* a StreamDecoder in the hands of a caller, or in the connection of a running handler
InitRead ==
    /\ InitCore(LimRead) /\ resp = ResponseFutNew("Subscription") /\ NoDial /\ NoHandshake /\ NoEncoder
    /\ \/ \E socket \in ServerStreams : decoder = StreamDecoder_new(socket, None, FALSE)
       \/ \E socket \in HandlerStreams : decoder = StreamDecoder_new(socket, None, TRUE)

NextRead ==
    \/ decoder.attached /\ Subscribe
    \/ DecoderRead
    \/ DecoderDecode
    \/ decoder.attached /\ PollBegin
    \/ PollReadNextMatch
    \/ PollReadNextSocket
    \/ decoder.attached /\ ReceiveCommands
    \/ decoder.attached /\ PollEnd
    \/ decoder.attached /\ ClientTask
    \/ decoder.attached /\ ConnectBegin
    \/ ConnectFinishAttached

SpecRead == InitRead /\ [][NextRead]_vars

\* the errors of decode_headers
HeaderBlockErrors ==
    {"MissingHead", "InvalidHead", "StatusCode", "InvalidHeaderLine", "HeaderNameInvalidUtf8",
     "HeaderName", "HeaderValueInvalidUtf8", "HeaderValue"}

\* the k-th thing decode returned is the failure of a header block
HeaderBlockFailed(k) ==
    decoder.returned[k].kind = "Err" /\ decoder.returned[k].err \in HeaderBlockErrors

\* once decode_headers failed the decoder is Poisoned, and all that decode returns from
\* then on is the error Poisoned
PoisonedStays ==
    \A k \in 1..Len(decoder.returned) :
        HeaderBlockFailed(k) =>
            /\ decoder.status = Poisoned
            /\ \A j \in (k + 1)..Len(decoder.returned) : decoder.returned[j] = Err("Poisoned")

\* C30: a decoder error of the read of the handler ends the poll with Disconnected; the
\* client task answers Disconnected by recycling the handler, which connects again and
\* runs on a connection with a new decoder; and after a failed header block every later
\* call of decode on that decoder returns the error Poisoned, never an operation
C30_DecoderErrorDisconnects ==
    /\ [][(decoder.attached /\ decoder.pc = "match" /\ decoder.out.kind = "Err" /\ decoder' # decoder)
              => (output' = "Disconnected" /\ hstate' = "running")]_vars
    /\ [][(output = "Disconnected" /\ output' # "Disconnected")
              => (hstate' = "recycled" /\ nreconnect' = nreconnect + 1)]_vars
    /\ [][(hstate = "recycled" /\ hstate' # "recycled") => hstate' = "connecting"]_vars
    /\ [][(hstate = "connecting" /\ hstate' # "connecting")
              => (hstate' = "running" /\ output' = "none" /\ decoder'.status = ControlLine(0)
                  /\ decoder'.read_buf = <<>> /\ decoder'.returned = <<>>)]_vars
    /\ []PoisonedStays

\* the handler returned Disconnected for a header block that failed to decode
C30_Witness ==
    /\ decoder.attached /\ output = "Disconnected"
    /\ decoder.status = Poisoned /\ decoder.returned # <<>>
    /\ HeaderBlockFailed(Len(decoder.returned))

\* the client task connects again after a decoder error; the old connection, with its
\* decoder, is still there
ReconnectingAfterDecoderError ==
    /\ decoder.attached /\ hstate = "connecting" /\ decoder.out.kind = "Err"

\* a caller got the error Poisoned twice after an InvalidHead
PoisonedTwice ==
    /\ ~decoder.attached
    /\ decoder.returned = <<Err("InvalidHead"), Err("Poisoned"), Err("Poisoned")>>

\* the decoder of a handler returned InvalidCommand, and InvalidMsgArgsCount
InvalidCommandDisconnects ==
    decoder.attached /\ output = "Disconnected" /\ decoder.out = Err("InvalidCommand")
BadArgumentsDisconnect ==
    decoder.attached /\ output = "Disconnected" /\ decoder.out = Err("InvalidMsgArgsCount")

\* this step is the Closed arm of the delivery of a message for id: try_send finds the
\* subscription's channel closed, and the handler pushes Unimportant and enqueues
\* Unsubscribe{id, None} while id stays in the map
ClosedDelivery(id) ==
    /\ PollRead(SrvMessage(id, 0))
    /\ id \in DOMAIN subscriptions
    /\ try_send_outcome(HandlerView, id) = "Closed"

\* the write buffer holds an Unsubscribe{id, None} that a Closed delivery put there
ClosedUnsubscribeBuffered(id) ==
    /\ id \in DOMAIN subscriptions
    /\ \E k \in 1..Len(wire) : wire[k] = OpUnsubscribe(id, None)

\* C31: a delivery that finds the channel of id Closed enqueues Unsubscribe{id, None} and
\* keeps the map entry; the handler does so at most once for one closed subscription,
\* and the +OK that finds the Unimportant entry of that Unsubscribe at the head of
\* in_flight_commands removes id from the map
C31_ClosedChannelUnsubscribe ==
    [][\A id \in SubIds :
        /\ ClosedDelivery(id) =>
                /\ wire' = Append(wire, OpUnsubscribe(id, None))
                /\ id \in DOMAIN subscriptions'
                /\ ~ClosedUnsubscribeBuffered(id)
        /\ (/\ PollRead(SrvSuccess)
            /\ ClosedUnsubscribeBuffered(id)
            /\ Len(wire) = 1 /\ in_flight_commands = <<Unimportant>>)
                => id \notin DOMAIN subscriptions']_vars

\* what the handler does for a closed subscription: every delivery that finds the channel
\* Closed enqueues one more Unsubscribe{id, None} and keeps the entry, and no +OK changes
\* the map
ClosedDeliveryEachTime ==
    [][/\ \A id \in SubIds : ClosedDelivery(id) =>
                /\ wire' = Append(wire, OpUnsubscribe(id, None))
                /\ in_flight_commands' = Append(in_flight_commands, Unimportant)
                /\ subscriptions' = subscriptions
       /\ PollRead(SrvSuccess) => subscriptions' = subscriptions]_vars

\* two Unsubscribe operations for one closed subscription are in the write buffer, and
\* its entry is still in the map
UnsubscribedTwice ==
    \E id \in SubIds :
        /\ id \in DOMAIN subscriptions
        /\ Cardinality({k \in 1..Len(wire) : wire[k] = OpUnsubscribe(id, None)}) = 2

\* this step handles a server message for id, whose entry counts the messages left
CountedMessage(id) ==
    /\ PollRead(SrvMessage(id, 0))
    /\ id \in DOMAIN subscriptions
    /\ IsSome(subscriptions[id].remaining)

\* this step takes an Unsubscribe{id, max = k} command from the channel
TakesUnsubscribeAfter(id) ==
    /\ pc = "recv" /\ Len(cmdq') < Len(cmdq)
    /\ \E k \in 1..Len(TakenCommands) :
            /\ TakenCommands[k].type = "Unsubscribe" /\ TakenCommands[k].id = id
            /\ IsSome(TakenCommands[k].max)

\* C32: an Unsubscribe{id, max = k} command for a subscription of the map stores
\* remaining = k; from then on every server message for id whose delivery is Ok or Full
\* counts one down, a message that finds the channel Closed counts nothing, the stored
\* count is never 0, and the entry leaves the map with the message that finds the count
\* at 1, which is the k-th counted message
C32_RemainingCountsDown ==
    /\ [](\A id \in DOMAIN subscriptions :
            IsSome(subscriptions[id].remaining) => Unwrap(subscriptions[id].remaining) >= 1)
    /\ [](\A id \in DOMAIN subscriptions : \A k \in 1..2 :
            HandleCommand(HandlerView, CmdUnsubscribe(id, Some(k))).subscriptions
                = [subscriptions EXCEPT ![id].remaining = Some(k)])
    /\ [][\A id \in SubIds : CountedMessage(id) =>
            IF try_send_outcome(HandlerView, id) = "Closed"
            THEN subscriptions' = subscriptions
            ELSE IF Unwrap(subscriptions[id].remaining) = 1
            THEN subscriptions' = MapRemove(subscriptions, id)
            ELSE subscriptions' =
                    [subscriptions EXCEPT ![id].remaining = Some(Unwrap(@) - 1)]]_vars
    /\ [][\A id \in SubIds :
            (/\ id \in DOMAIN subscriptions /\ id \in DOMAIN subscriptions'
             /\ subscriptions'[id].remaining # subscriptions[id].remaining)
                => \/ CountedMessage(id)
                   \/ TakesUnsubscribeAfter(id)]_vars

\* C32 witness: the subscription of id was removed by its second counted message: its
\* Subscribe and its Unsubscribe{id, 2} are still unanswered, two server messages were
\* handled, and the subscription's channel holds what was delivered of them
C32_Witness ==
    \E id \in SubIds :
        /\ id \notin DOMAIN subscriptions
        /\ usub[id].life = "alive" /\ usub[id].status = "Subscribed"
        /\ \E k \in 1..Len(in_flight_commands) : in_flight_commands[k] = InFlightSubscribe(id)
        /\ nserver = 2 /\ ncloseafter = 1
        /\ Len(subchan[id].chan) \in 1..lim.subcap

\* ------------------------------------------------------------- the stream encoder

WRITE_FLATTEN_THRESHOLD == 4096

\* BufList::new
BufList_new == [bufs |-> <<>>, len |-> 0]

\* BufList::push
BufList_push(l, buf) == [bufs |-> Append(l.bufs, buf), len |-> l.len + ByteLen(buf)]

\* BufList::chunk: the front chunk, or the empty slice
BufList_chunk(l) == IF l.bufs = <<>> THEN <<>> ELSE Head(l.bufs)

RECURSIVE advance_loop(_, _, _)
\* the while loop of BufList::advance. front_mut().unwrap() panics on an empty list;
\* with remaining < cnt the front chunk is advanced by cnt, past its end, and
\* Bytes::advance panics; otherwise the front chunk is removed whole and cnt - remaining
\* is computed in usize: with remaining > cnt the subtraction panics in a build with
\* overflow checks and wraps in a build without
advance_loop(l, cnt, overflow_checks) ==
    IF cnt = 0 THEN [panic |-> FALSE, list |-> l]
    ELSE IF l.bufs = <<>> THEN [panic |-> TRUE, list |-> l]
    ELSE LET front_remaining == ByteLen(Head(l.bufs)) IN
         IF front_remaining < cnt
         THEN [panic |-> TRUE, list |-> l]
         ELSE IF front_remaining > cnt /\ overflow_checks
         THEN [panic |-> TRUE, list |-> [bufs |-> Tail(l.bufs), len |-> l.len - front_remaining]]
         ELSE advance_loop([bufs |-> Tail(l.bufs), len |-> l.len - front_remaining],
                           (cnt - front_remaining) % (2 ^ UsizeBits), overflow_checks)

\* BufList::advance: the assertion, then the loop
BufList_advance(l, cnt, overflow_checks) ==
    IF cnt > l.len THEN [panic |-> TRUE, list |-> l]
    ELSE advance_loop(l, cnt, overflow_checks)

\* StreamEncoder::new, next to the socket it is written to. written are the bytes the
\* socket has accepted, enqueued the encodings of the operations enqueued so far, ops
\* their number; vectored is what is_write_vectored answers and overflow_checks tells a
\* build that checks integer overflow from one that wraps
StreamEncoder_new(vectored, overflow_checks) ==
    [status |-> "open", write_buf |-> BufList_new, flattened_writes |-> <<>>,
     written |-> <<>>, enqueued |-> <<>>, ops |-> 0,
     vectored |-> vectored, overflow_checks |-> overflow_checks]

\* FrameEncoder::small_write
small_write(e, buf) == [e EXCEPT !.flattened_writes = Cat(@, buf)]

\* FrameEncoder::write
write(e, buf) ==
    IF ByteLen(buf) = 0 THEN e
    ELSE IF ByteLen(buf) < WRITE_FLATTEN_THRESHOLD THEN [e EXCEPT !.flattened_writes = Cat(@, buf)]
    ELSE [e EXCEPT !.write_buf =
                        BufList_push(IF e.flattened_writes # <<>>
                                     THEN BufList_push(@, e.flattened_writes) ELSE @, buf),
                   !.flattened_writes = <<>>]

\* what encode writes ahead of the payload of a Publish: the bytes of the operation less
\* its payload and the line terminator after it
publish_head(item) == split_to(encode(item), ByteLen(encode(item)) - ByteLen(item.payload) - ByteLen(CRLF))

\* StreamEncoder::enqueue_write_op: encode makes small writes, but for the payload of a
\* Publish, which goes to write
StreamEncoder_enqueue_write_op(e, item) ==
    LET e1 == IF item.op = "Publish"
              THEN small_write(write(small_write(e, publish_head(item)), item.payload), CRLF)
              ELSE small_write(e, encode(item))
    IN [e1 EXCEPT !.enqueued = Cat(@, encode(item)), !.ops = @ + 1]

\* StreamEncoder::remaining, has_remaining and chunk
StreamEncoder_remaining(e) == e.write_buf.len + ByteLen(e.flattened_writes)
StreamEncoder_has_remaining(e) == e.write_buf.bufs # <<>> \/ e.flattened_writes # <<>>
StreamEncoder_chunk(e) ==
    IF BufList_chunk(e.write_buf) = <<>> THEN e.flattened_writes ELSE BufList_chunk(e.write_buf)

\* StreamEncoder::chunks_vectored: the chunks of write_buf, then flattened_writes
StreamEncoder_chunks_vectored(e) ==
    e.write_buf.bufs \o (IF e.flattened_writes = <<>> THEN <<>> ELSE <<e.flattened_writes>>)

\* every byte the encoder holds, in order
StreamEncoder_all_bytes(e) == Join(StreamEncoder_chunks_vectored(e))

\* StreamEncoder::advance
StreamEncoder_advance(e, cnt) ==
    IF cnt > StreamEncoder_remaining(e) THEN [e EXCEPT !.status = "panicked"]
    ELSE LET mid == Min(e.write_buf.len, cnt)
             r == BufList_advance(e.write_buf, mid, e.overflow_checks)
             rem == cnt - mid
         IN IF r.panic THEN [e EXCEPT !.status = "panicked", !.write_buf = r.list]
            ELSE [e EXCEPT !.write_buf = r.list,
                           !.flattened_writes = IF rem = ByteLen(@) THEN <<>> ELSE advance(@, rem)]

\* the bytes poll_write_next offers to the socket: every chunk to a socket that writes
\* vectored, the first chunk to another
Offered(e) == IF e.vectored THEN StreamEncoder_all_bytes(e) ELSE StreamEncoder_chunk(e)

\* the ends of the chunks within the offered bytes
ChunkEnds(e) ==
    LET chunks == StreamEncoder_chunks_vectored(e)
    IN {ByteLen(Join(SubSeq(chunks, 1, k))) : k \in 1..Len(chunks)}

\* the numbers of bytes a write accepts: between 1 and all of the offered bytes; of the
\* numbers in between the model takes the small ones, the ends of the chunks and the
\* numbers next to them
WriteSizes(e) ==
    {n \in (1..MaxWrite) \cup {ByteLen(Offered(e))}
            \cup UNION {{b - 1, b, b + 1} : b \in ChunkEnds(e)} :
        n >= 1 /\ n <= ByteLen(Offered(e))}

\* StreamingConnection::poll_write_next, Ready(Ok(n)): the socket took n bytes and the
\* encoder is advanced by n
poll_write_next(e, n) ==
    StreamEncoder_advance([e EXCEPT !.written = Cat(@, split_to(Offered(e), n))], n)

\* the operations a caller enqueues: small ones, and a Publish whose payload is a chunk
\* of its own
WriteOps ==
    {ClientOp_Ping,
     ClientOp_Subscribe(2, Str(<<"a">>), None),
     ClientOp_Publish(Str(<<"a">>), None, <<>>, Str(<<"x">>)),
     ClientOp_Publish(Str(<<"a">>), None, <<>>, Fill("x", WRITE_FLATTEN_THRESHOLD))}

\* StreamingConnection::enqueue_write_op
EncoderEnqueue ==
    /\ encoder.status = "open"
    /\ encoder.ops < MaxWriteOps
    /\ \E item \in WriteOps : encoder' = StreamEncoder_enqueue_write_op(encoder, item)
    /\ UNCHANGED <<clientVars, happy_eyeballs, handshake, decoder>>

\* StreamingConnection::poll_write_next with bytes to write and a socket that takes some
EncoderWrite ==
    /\ encoder.status = "open"
    /\ StreamEncoder_has_remaining(encoder)
    /\ \E n \in WriteSizes(encoder) : encoder' = poll_write_next(encoder, n)
    /\ UNCHANGED <<clientVars, happy_eyeballs, handshake, decoder>>

\* a StreamingConnection whose caller enqueues operations and writes them to a socket
\* that takes part of what it is offered
InitWrite ==
    /\ InitCore(LimNone) /\ resp = ResponseFutNew("Subscription") /\ NoDial /\ NoHandshake /\ NoDecoder
    /\ \E vectored \in BOOLEAN, overflow_checks \in BOOLEAN :
            encoder = StreamEncoder_new(vectored, overflow_checks)

NextWrite == EncoderEnqueue \/ EncoderWrite

SpecWrite == InitWrite /\ [][NextWrite]_vars

\* the socket got the first bytes of what was enqueued, the encoder holds the rest, in
\* order, and remaining() counts it
WrittenInOrder ==
    /\ Cat(encoder.written, StreamEncoder_all_bytes(encoder)) = encoder.enqueued
    /\ StreamEncoder_remaining(encoder) = ByteLen(StreamEncoder_all_bytes(encoder))

\* C33: whatever the operations enqueued and however much of the offered bytes each
\* write accepts, advance does not panic, the bytes the socket received followed by the
\* bytes the encoder still holds are the encodings of the operations in enqueue order,
\* and remaining() is the number of bytes not yet written
C33_PartialWrites ==
    /\ encoder.status # "panicked"
    /\ WrittenInOrder

\* as long as the encoder holds flattened writes only, any partial write leaves the
\* bytes in order; a write that ends at the end of the front chunk does so too
FlattenedWritesInOrder ==
    [][(/\ encoder.status = "open" /\ encoder' # encoder
            /\ \/ encoder.write_buf.bufs = <<>>
               \/ encoder'.ops > encoder.ops
               \/ ByteLen(encoder'.written) - ByteLen(encoder.written) = ByteLen(Head(encoder.write_buf.bufs)))
        => (encoder'.status = "open" /\ WrittenInOrder')]_vars

\* advance panicked for a write that ended inside the payload chunk, and for one that
\* went past the end of the front chunk
PanicInsideChunk ==
    /\ encoder.status = "panicked"
    /\ encoder.ops = 1
    /\ ByteLen(encoder.written) = 1
PanicAcrossChunks ==
    /\ encoder.status = "panicked"
    /\ encoder.vectored
    /\ encoder.written = encoder.enqueued

\* the operations a server in verbose mode answers with +OK or -ERR
IsAcknowledged(o) == o.op \in {"Publish", "Subscribe", "Unsubscribe"}

\* the in_flight_commands entries of a sequence of operations: one for every
\* acknowledged operation, in order, tagged with the id for a Subscribe
EntriesOf(ops) ==
    LET acked == SelectSeq(ops, IsAcknowledged)
    IN [k \in 1..Len(acked) |->
            IF acked[k].op = "Subscribe" THEN InFlightSubscribe(acked[k].id) ELSE Unimportant]

\* this step is the end of Handler::connect: a new connection with the replay on it
Connects == hstate = "connecting" /\ hstate' = "running"

\* the operations this step enqueues on the connection
Enqueued ==
    IF Connects THEN wire'
    ELSE IF IsPrefix(wire, wire') THEN SubSeq(wire', Len(wire) + 1, Len(wire'))
    ELSE <<>>

\* C34: every step that enqueues operations on the connection, the replay of Handler::connect
\* included, pushes on in_flight_commands exactly one entry per acknowledged operation, in
\* the order of the operations, a Subscribe entry with the id of its Subscribe; the queue
\* of a new connection starts with the entries of the replay alone
C34_InFlightMatchesSent ==
    [][Enqueued # <<>> =>
            in_flight_commands' =
                (IF Connects THEN <<>> ELSE in_flight_commands) \o EntriesOf(Enqueued)]_vars

\* what the code does: the same for every step but the replay, which pushes one Subscribe
\* entry per subscription and none for the Unsubscribe{id, remaining} it sends after it
InFlightButReplay ==
    [][Enqueued # <<>> =>
            in_flight_commands' =
                IF Connects
                THEN EntriesOf(SelectSeq(wire', LAMBDA o : o.op = "Subscribe"))
                ELSE in_flight_commands \o EntriesOf(Enqueued)]_vars

\* a new connection whose replay holds more acknowledged operations than
\* in_flight_commands has entries
ReplayOneEntryShort ==
    /\ hstate = "running" /\ nreconnect > 0 /\ nserver = 0
    /\ \E k \in 1..Len(wire) : wire[k].op = "Unsubscribe"
    /\ Len(SelectSeq(wire, IsAcknowledged)) > Len(in_flight_commands)

\* ------------------------------------------------------------- the decoder and the split of its input

\* the bytes of a server that sends well-formed operations only
ValidInput == ~Encoded /\ decoder.sent \in GoodStreams

RECURSIVE decode_all(_, _, _)
\* what decode returns, call after call, on a buffer that was given every byte at once
decode_all(status, buf, acc) ==
    LET r == decode(status, buf)
    IN IF r.out.kind = "None" \/ Len(acc) >= MaxDecodeCalls THEN acc
       ELSE decode_all(r.status, r.read_buf, Append(acc, r.out))

\* decode has just returned Ok(None) to its caller
NoProgress == decoder.decoded /\ decoder.out = OkNone

\* the read buffer holds a whole control line that decode is to read next
ControlLineBuffered ==
    /\ decoder.status.kind = "ControlLine"
    /\ find_crlf(decoder.read_buf) # None

\* C35: on the bytes of valid server operations, however they are split into reads,
\* once every byte is read and decode reports no progress the decoder has returned
\* what it returns on the bytes given at once, and decode never reports no progress
\* while a whole control line is in its buffer
C35_ChunkingIndependent ==
    ValidInput =>
        /\ (NoProgress /\ decoder.socket = <<>>)
               => decoder.returned = decode_all(ControlLine(0), decoder.sent, <<>>)
        /\ NoProgress => ~ControlLineBuffered

\* what the decoder returned is at every time the beginning of what it returns on the
\* bytes given at once: a split delays operations, it does not change or reorder them
ReturnedIsPrefix ==
    ValidInput =>
        LET all == decode_all(ControlLine(0), decoder.sent, <<>>)
        IN /\ Len(decoder.returned) <= Len(all)
           /\ \A k \in 1..Len(decoder.returned) : decoder.returned[k] = all[k]

\* PING came in two reads, the first of as many bytes as the line of +OK has; with
\* every byte read, decode reports no progress and +OK stays in the buffer
StaleLastBytesRead ==
    /\ ValidInput /\ NoProgress /\ decoder.socket = <<>>
    /\ decoder.returned = <<OkSome(ServerOp_Ping)>>
    /\ decoder.read_buf = Line(<<"+", "O", "K">>)
    /\ decoder.status = ControlLine(ByteLen(decoder.read_buf))

\* ------------------------------------------------------------- decode on every input

\* every byte that was sent is read, and decode was called on the buffer
AllDecoded == decoder.socket = <<>> /\ decoder.decoded

\* decode returned a DecoderError from decode_headers
HeaderBlockError(out) == out.kind = "Err" /\ out.err \in HeaderBlockErrors

\* some call of decode ended in a panic
Panicked == \E k \in 1..Len(decoder.returned) : decoder.returned[k] = Panic

\* C36: whatever bytes the server sends, decode returns an operation, no progress or a
\* DecoderError and never panics; a header line that ends at its colon and a header
\* block shorter than its status line make it return a decoder error
C36_DecodeNeverPanics ==
    /\ decoder.out.kind \in {"Some", "None", "Err"}
    /\ ~Panicked
    /\ (AllDecoded /\ decoder.sent \in {ColonEndedStream} \cup ShortBlockStreams)
           => (decoder.returned # <<>> /\ HeaderBlockError(decoder.returned[1]))

\* decode panics on the header line that ends at its colon, and on no other input; a
\* header block shorter than its status line makes it return InvalidHead
PanicsOnColonOnly ==
    /\ (Panicked \/ decoder.out = Panic) => decoder.sent = ColonEndedStream
    /\ (AllDecoded /\ decoder.sent = ColonEndedStream) => decoder.returned[1] = Panic
    /\ (AllDecoded /\ decoder.sent \in ShortBlockStreams)
           => (decoder.returned # <<>> /\ decoder.returned[1] = Err("InvalidHead"))

\* decode panicked on the block of the header line "h:", which came in several reads
PanickedOnColon ==
    /\ ~decoder.attached /\ decoder.out = Panic /\ decoder.reads > 1
    /\ decoder.sent = ColonEndedStream

\* decode returned InvalidHead on a header block of 3 bytes
ShortBlockInvalidHead ==
    /\ decoder.sent \in ShortBlockStreams /\ AllDecoded
    /\ decoder.returned[1] = Err("InvalidHead")

\* ------------------------------------------------------------- multiplexed requests and the reconnect

\* the response future of reply subject r waits, and its one-shot is closed with
\* nothing in it: its next poll resolves it with SubscriptionClosed
ClosedUnanswered(r) == mfut[r] = "alive" /\ mdeliv[r] = 0 /\ ~MuxSenderAlive(r)

\* the client task recycles the handler
Recycles == hstate = "running" /\ hstate' = "recycled"

\* the handler of a new connection takes its first RequestMultiplexed
FirstRequestAfterReconnect ==
    /\ hstate = "running" /\ hstate' = "running" /\ nreconnect > 0
    /\ multiplexed_subscriptions = None /\ multiplexed_subscriptions' # None

\* C37: when the handler is recycled every request that is registered in its
\* multiplexed map has its one-shot closed unanswered, so that its future resolves with
\* SubscriptionClosed at its next poll whatever its timeout; from then on it gets no
\* message and resolves in no other way; the handler has no multiplexed map from the
\* recycling until the new connection takes a RequestMultiplexed, and then
\* Subscribe{1, prefix.*} is enqueued on the new connection ahead of the request
C37_ReconnectClosesMultiplexed ==
    /\ [][Recycles =>
            \A r \in ReplySubjects :
                (Registered(r) /\ mfut[r] = "alive") => ClosedUnanswered(r)']_vars
    /\ [][\A r \in ReplySubjects :
            ClosedUnanswered(r) =>
                /\ mdeliv'[r] = 0
                /\ ~Registered(r)'
                /\ mfut'[r] \in {"alive", "resolved_closed", "dropping"}
                /\ mfut'[r] = "alive" => ClosedUnanswered(r)']_vars
    /\ [](hstate \in {"recycled", "connecting"} => multiplexed_subscriptions = None)
    /\ [][(hstate = "connecting" /\ hstate' = "running") =>
            /\ multiplexed_subscriptions' = None
            /\ OpsOf(wire', "Subscribe", MULTIPLEXED_SUBSCRIPTION_ID) = {}]_vars
    /\ [][FirstRequestAfterReconnect =>
            \E k \in 1..Len(wire') :
                /\ wire'[k] = OpSubscribe(MULTIPLEXED_SUBSCRIPTION_ID, "prefix.*", None)
                /\ k + 1 \in RequestPublishes(wire')
                /\ \A j \in RequestPublishes(wire') : k < j]_vars

\* a request that was registered on the lost connection resolved with
\* SubscriptionClosed, and the new connection subscribed to the prefix again for a
\* request that is registered on it
C37_Witness ==
    /\ hstate = "running" /\ nreconnect > 0
    /\ \E r \in ReplySubjects : mfut[r] = "resolved_closed" /\ mdeliv[r] = 0
    /\ \E r \in ReplySubjects : Registered(r) /\ mfut[r] = "alive"
    /\ Cardinality(OpsOf(wire, "Subscribe", MULTIPLEXED_SUBSCRIPTION_ID)) = 1

\* ------------------------------------------------------------- close() and a connection that fails

\* publishes and a close() over a connection whose reads, writes and flushes can fail
\* and that is re-established
LimCloseLost == [LimNone EXCEPT !.pub = MaxPub + 1, !.close = TRUE, !.reconnect = MaxReconnects]

InitCloseLost == InitWith(LimCloseLost)

NextCloseLost ==
    \/ Publish
    \/ ClientClose
    \/ PollBegin
    \/ PollReadPending
    \/ PollReadError
    \/ ReceiveCommands
    \/ ReceiveClosed
    \/ PollEnd
    \/ PollWriteError
    \/ ClientTask
    \/ ConnectBegin
    \/ ConnectFinish

SpecCloseLost == InitCloseLost /\ [][NextCloseLost]_vars

\* the handler has processed a Close command whose caller has not been released
CloseProcessed == awaiting_close > 0

\* the handler task is between two connections: it waits for the next attempt or is
\* in one
Reconnecting == hstate \in {"recycled", "connecting"}

\* C38: once the handler has processed a Close the handler task makes no further
\* connection attempt, whatever fails on the connection: the poll that follows ends
\* with Closed, and the task exits and releases the callers of close()
C38_CloseWithoutReconnect ==
    /\ [](CloseProcessed => ~Reconnecting)
    /\ [][(CloseProcessed /\ Polling /\ output' # "none") => output' = "Closed"]_vars
    /\ [][(CloseProcessed /\ ~CloseProcessed') => hstate' = "closed"]_vars

\* what the code does: a write or flush error in the poll that processed the Close
\* ends the poll with Disconnected although shutting_down is set, the handler is
\* recycled with the waiting senders, and they are released only by the handler of a
\* connection that was established after the Close
ClosedAfterReconnectOnly ==
    /\ [][(CloseProcessed /\ Polling /\ output' # "none") => output' \in {"Closed", "Disconnected"}]_vars
    /\ [][(CloseProcessed /\ Polling /\ output' = "Disconnected") => shutting_down]_vars
    /\ [][(CloseProcessed /\ Reconnecting') => (CloseProcessed' /\ chanClosed')]_vars
    /\ [][(CloseProcessed /\ ~CloseProcessed') => (hstate' = "closed" /\ output = "Closed")]_vars

\* the callers of close() wait while the handler task connects again
CloseWaitsForReconnect ==
    /\ CloseProcessed /\ hstate = "connecting" /\ close_called /\ cmdq = <<>>

\* the handler of the new connection found the channel closed and ended with Closed
ClosedOnNewConnection ==
    /\ CloseProcessed /\ hstate = "running" /\ nreconnect > 0 /\ output = "Closed"

\* ------------------------------------------------------------- receive_command terminates

\* the command channel is closed and holds no command: poll_recv_many reports Ready(0)
ClosedAndEmpty == chanClosed /\ cmdq = <<>> /\ \A t \in Callers : ~PermitHeld(t)

\* the end of a poll whose receive_command did not get Pending from a closed and empty
\* channel: it returned NoMoreSpace, or NoMoreCommands on a channel that is open
PollEndNotPending ==
    /\ PollEnd
    /\ ~(ClosedAndEmpty /\ ReceiveOutcome(wire') = "NoMoreCommands")

\* the handler task is polled until it completes, and a call in the command loop of
\* Handler::poll returns; a closed and empty command channel reports Ready(0) for good
SpecReceive ==
    /\ InitCloseLost /\ [][NextCloseLost]_vars
    /\ WF_vars(ReceiveCommands) /\ WF_vars(ReceiveClosed) /\ WF_vars(PollEndNotPending)

\* the same handler on a channel whose poll_recv_many ends up reporting Pending when
\* it is closed and empty, as the budget of a tokio task makes it do
SpecReceiveBudget ==
    /\ InitCloseLost /\ [][NextCloseLost]_vars
    /\ WF_vars(ReceiveCommands) /\ WF_vars(ReceiveClosed) /\ WF_vars(PollEnd)

\* the handler is in the command loop of Handler::poll
InCommandLoop == Polling /\ pc = "recv"

\* C39: the command loop of a poll comes to its end, a closed and empty channel
\* included, without the channel reporting Pending again: receive_command returns
\* and the poll completes
C39_ReceiveCommandTerminates == InCommandLoop ~> ~InCommandLoop

\* on a closed and empty channel the command loop, once shutting_down is set, is left
\* by nothing but the end of a poll whose receive_command got Pending, or by an error
\* of the connection
LeavesLoopOnPendingOnly ==
    [][(InCommandLoop /\ ClosedAndEmpty /\ Connection_may_enqueue_more_ops(wire) /\ ~InCommandLoop')
          => (shutting_down /\ output' \in {"Closed", "Disconnected"})]_vars

\* receive_command got Ready(0) and goes round its loop with nothing to change
SpinsOnClosedChannel ==
    /\ InCommandLoop /\ ClosedAndEmpty /\ shutting_down
    /\ Connection_may_enqueue_more_ops(wire) /\ wire = <<>>

\* ------------------------------------------------------------- what is enqueued is written and flushed

\* publishes, a PING of the server and a close() over a streaming or a websocket
\* connection, with and without a flush interval, on a socket that is blocked at times
\* and never fails
LimDrain(websocket, interval) ==
    [LimFlush(websocket, interval) EXCEPT !.close = TRUE, !.reconnect = 0, !.srv = 1]

InitDrain == \E websocket \in BOOLEAN, interval \in BOOLEAN : InitWith(LimDrain(websocket, interval))

NextDrain ==
    \/ Publish
    \/ ClientClose
    \/ PollBegin
    \/ PollRead(SrvPing)
    \/ PollReadPending
    \/ ReceiveCommands
    \/ ReceiveClosed
    \/ PollWrite
    \/ PollEnd
    \/ DelayElapses
    \/ ClientTask

\* the end of a poll at which the socket took every operation of the write buffer
PollEndWritten == PollEnd /\ (lim.ws \/ wire' = <<>>)

\* the end of a poll at which the socket took every operation and the flush completed
PollEndFlushed == PollEnd /\ wire' = <<>> /\ ~unflushed'

\* the handler task is polled whenever it can run, the sleep of the delayed flusher
\* elapses, and the socket keeps accepting writes: a poll at whose end it takes what
\* is buffered, and one at whose end the flush completes, is not refused for ever
SpecDrain ==
    /\ InitDrain /\ [][NextDrain]_vars
    /\ WF_vars(PollBegin) /\ WF_vars(PollReadPending) /\ WF_vars(ReceiveCommands)
    /\ WF_vars(PollEnd) /\ WF_vars(DelayElapses) /\ WF_vars(ClientTask)
    /\ SF_vars(PollEndWritten) /\ SF_vars(PollEndFlushed)

\* every operation that was enqueued is written and the writes are flushed
Flushed == wire = <<>> /\ ~unflushed

\* what wakes a handler that returned Pending: the write waker that a blocked
\* poll_write_next registered, the flush in progress, or the delayed flusher
WillBeWoken == (~lim.ws /\ wire # <<>>) \/ flushing \/ delay # "none"

\* C40: every operation enqueued in the write buffer of the connection is in the end
\* written and flushed, and whenever a poll returned Pending with operations buffered
\* or written and not flushed, the write waker, the flush in progress or the delayed
\* flusher wakes the handler again
C40_EnqueuedIsFlushed ==
    /\ SomethingToFlush ~> Flushed
    /\ []((EndOfPoll /\ SomethingToFlush) => WillBeWoken)

\* what the code does: what is enqueued is written and flushed unless the handler
\* returns Closed before, and a handler that returned Pending with something to flush
\* is woken again
FlushedUnlessClosed ==
    /\ SomethingToFlush ~> (Flushed \/ output = "Closed" \/ hstate = "closed")
    /\ []((EndOfPoll /\ SomethingToFlush) => WillBeWoken)

\* the handler task ended on Closed with operations that the socket never took
ClosedUnwritten == hstate = "closed" /\ wire # <<>>

\* the handler task ended on Closed while the delayed flusher waited: the socket took
\* every operation, on a streaming connection, and no flush was made
ClosedUnflushed ==
    /\ hstate = "closed" /\ delay = "pending"
    /\ IF lim.ws THEN wire # <<>> ELSE wire = <<>> /\ unflushed

====
